---- MODULE Spec2Model ----
\* A model of mau's application bootstrap: the config store (src/src/config.rs),
\* the OpenGL context negotiation (src/mau-renderer-opengl/src/lib.rs) and the
\* event-loop driver (src/src/app.rs).
EXTENDS Integers, Sequences, FiniteSets, TLC

VARIABLES
    pc,                         \* where try_run_with_language is
    ret,                        \* what try_run_with_language returned, tag "none" before
    file,                       \* the config.toml file: None when absent, else Some(lines)
    config,                     \* the in-memory config: None before loading, else Some(c)
    loadCall,                   \* the driver's load_or_create call, None before it
    hist,                       \* the config-store calls made so far
    accepts,                    \* the multisample levels the platform can create a context at
    lock,                       \* the CLIPBOARD mutex: None when free, else Some(thread holding it)
    threads,                    \* where each thread calling into clipboard.rs is
    effects,                    \* what the latest step that handled an error logged and showed
    app,                        \* the App the builder produced
    accepted,                   \* the geometry the window events have established and whether any did, None before the loop
    frame,                      \* the calls of the latest redraw tick, in order
    requested,                  \* the levels build_windowed was asked for, in order
    msaa,                       \* build_context's msaa
    attempted_configurations,   \* build_context's list of failed attempts
    successful_configuration,   \* build_context's Option of the context built
    win,                        \* the live window: None before it exists
    input,                      \* the Input tracker: TRUE when it holds events of this frame
    state,                      \* the driver's Option<Box<dyn AppState>>
    clipboard,                  \* CLIPBOARD: TRUE when it holds Some(Clipboard)
    last_window_position,       \* the remembered position
    last_window_size,           \* the remembered size
    control_flow,               \* winit's control flow: "Poll" or "Exit"
    calls                       \* how often init_state, clipboard::init, process, next_state,
                                \* report_error, finish_frame and the exit-time write ran

----------------------------------------------------------------------------
\* Option<T> is a sequence of length at most one.
None == <<>>
Some(v) == <<v>>
IsSome(o) == Len(o) = 1
Unwrap(o) == o[1]

\* Result<T, E>
Ok(v) == [tag |-> "Ok", value |-> <<v>>, err |-> ""]
Err(e) == [tag |-> "Err", value |-> <<>>, err |-> e]
IsOk(r) == r.tag = "Ok"

----------------------------------------------------------------------------
\* TOML documents.  A file is a sequence of lines; a line is a key/value pair,
\* a table header, or text that is not TOML at all.
StrV(s) == [type |-> "string", s |-> s, n |-> 0]
IntV(n) == [type |-> "integer", s |-> "", n |-> n]
BoolV(b) == [type |-> "boolean", s |-> "", n |-> IF b THEN 1 ELSE 0]
Pair(k, v) == [kind |-> "pair", key |-> k, value |-> v]
Table(k) == [kind |-> "table", key |-> k, value |-> StrV("")]
Junk == [kind |-> "junk", key |-> "", value |-> StrV("")]

WindowConfig(x, y, width, height, maximized) ==
    [x |-> x, y |-> y, width |-> width, height |-> height, maximized |-> maximized]

MyConfig(language, window) == [language |-> language, window |-> window]

DefaultConfig == MyConfig("en-US", None)

\* A [window] table with width and height under each other's key
SerializeWindowSwapped(w) ==
    << Table("window"),
       Pair("x", IntV(w.x)), Pair("y", IntV(w.y)),
       Pair("width", IntV(w.height)), Pair("height", IntV(w.width)),
       Pair("maximized", BoolV(w.maximized)) >>

\* toml::to_string(&config): the struct's fields in declaration order; a None
\* window is left out, a Some window becomes the [window] table.
SerializeWindow(w) ==
    << Table("window"),
       Pair("x", IntV(w.x)), Pair("y", IntV(w.y)),
       Pair("width", IntV(w.width)), Pair("height", IntV(w.height)),
       Pair("maximized", BoolV(w.maximized)) >>

Serialize(c) ==
    << Pair("language", StrV(c.language)) >>
        \o (IF IsSome(c.window) THEN SerializeWindow(Unwrap(c.window)) ELSE <<>>)

\* The index of the first table header of a document, Len + 1 when it has none.
FirstTable(doc) ==
    IF \E i \in 1..Len(doc) : doc[i].kind = "table"
    THEN CHOOSE i \in 1..Len(doc) :
            doc[i].kind = "table" /\ \A j \in 1..(i - 1) : doc[j].kind # "table"
    ELSE Len(doc) + 1

\* The lines of a document that belong to the root table, resp. to [window].
RootLines(doc) == SubSeq(doc, 1, FirstTable(doc) - 1)
TableLines(doc) == SubSeq(doc, FirstTable(doc) + 1, Len(doc))

\* TOML rejects text that is no key/value pair or header, a table defined
\* twice and a key defined twice in one table.
WellFormed(doc) ==
    /\ \A i \in 1..Len(doc) : doc[i].kind # "junk"
    /\ Cardinality({i \in 1..Len(doc) : doc[i].kind = "table"}) <= 1
    /\ \A t \in {RootLines(doc), TableLines(doc)} :
          \A i, j \in 1..Len(t) : t[i].key = t[j].key => i = j

HasKey(t, k) == \E i \in 1..Len(t) : t[i].key = k
Get(t, k) == t[CHOOSE i \in 1..Len(t) : t[i].key = k].value

\* A key holding an integer that fits the field: i32 takes every integer of the
\* model, u32 takes none below 0.
IsI32(t, k) == HasKey(t, k) /\ Get(t, k).type = "integer"
IsU32(t, k) == HasKey(t, k) /\ Get(t, k).type = "integer" /\ Get(t, k).n >= 0

\* WindowConfig without #[serde(default)] on maximized
WindowValidStrict(t) ==
    /\ IsI32(t, "x")
    /\ IsI32(t, "y")
    /\ IsU32(t, "width")
    /\ IsU32(t, "height")
    /\ HasKey(t, "maximized") /\ Get(t, "maximized").type = "boolean"

\* #[derive(Deserialize)] for WindowConfig: x, y, width and height are
\* required, maximized is #[serde(default)]; unknown keys are ignored.
WindowValid(t) ==
    /\ IsI32(t, "x")
    /\ IsI32(t, "y")
    /\ IsU32(t, "width")
    /\ IsU32(t, "height")
    /\ HasKey(t, "maximized") => Get(t, "maximized").type = "boolean"

DeserializeWindow(t) ==
    WindowConfig(Get(t, "x").n, Get(t, "y").n, Get(t, "width").n, Get(t, "height").n,
                 IF HasKey(t, "maximized") THEN Get(t, "maximized").n = 1 ELSE FALSE)

\* toml::from_str::<MyConfig>(&file)
FromStr(doc) ==
    IF ~WellFormed(doc) THEN Err("toml")
    ELSE LET root == RootLines(doc)
             hasWindow == FirstTable(doc) <= Len(doc)
         IN  IF ~(HasKey(root, "language") /\ Get(root, "language").type = "string")
                THEN Err("toml")
             ELSE IF HasKey(root, "window") THEN Err("toml")
             ELSE IF hasWindow /\ doc[FirstTable(doc)].key # "window"
                THEN Ok(MyConfig(Get(root, "language").s, None))
             ELSE IF hasWindow /\ ~WindowValid(TableLines(doc)) THEN Err("toml")
             ELSE Ok(MyConfig(Get(root, "language").s,
                              IF hasWindow THEN Some(DeserializeWindow(TableLines(doc)))
                              ELSE None))

----------------------------------------------------------------------------
\* The file system.  Faults is what can go wrong in one call: create_dir_all
\* fails, read_to_string fails (also on bytes that are not UTF-8), std::fs::write
\* fails to open the file, or fails after it has truncated it.
Faults == {"none", "mkdir", "read", "write_open", "write_data"}

\* The faults that can hit load_or_create on file f: it reads only a file that
\* exists and writes only when there is none or it parsed.
FaultsOf(f) ==
    IF ~IsSome(f) THEN Faults \ {"read"}
    ELSE IF IsOk(FromStr(Unwrap(f))) THEN Faults
    ELSE {"none", "mkdir", "read"}

\* std::fs::write(path, contents): the file after the call.
FsWrite(f, contents, fault) ==
    CASE fault = "write_open" -> f
      [] fault = "write_data" -> Some(<<>>)
      [] OTHER -> Some(contents)

\* AppConfig::save: [res |-> Result<(), ConfigError>, file |-> the file afterwards]
Save(c, f, fault) ==
    [res  |-> IF fault \in {"write_open", "write_data"} THEN Err("Io") ELSE Ok("unit"),
     file |-> FsWrite(f, Serialize(c), fault)]

\* load_or_create without the save of a fresh default
LoadOrCreateNoCreate(f, fault) ==
    IF fault = "mkdir" THEN [res |-> Err("Io"), file |-> f]
    ELSE IF ~IsSome(f) THEN [res |-> Ok(DefaultConfig), file |-> f]
    ELSE IF fault = "read" THEN [res |-> Err("Io"), file |-> f]
    ELSE LET parsed == FromStr(Unwrap(f))
         IN  IF ~IsOk(parsed) THEN [res |-> Ok(DefaultConfig), file |-> f]
             ELSE LET saved == Save(Unwrap(parsed.value), f, fault)
                  IN  [res  |-> IF IsOk(saved.res) THEN parsed ELSE saved.res,
                       file |-> saved.file]

\* load_or_create with the parse error returned instead of the default
LoadOrCreateStrict(f, fault) ==
    IF fault = "mkdir" THEN [res |-> Err("Io"), file |-> f]
    ELSE IF ~IsSome(f) THEN
        LET saved == Save(DefaultConfig, f, fault)
        IN  [res  |-> IF IsOk(saved.res) THEN Ok(DefaultConfig) ELSE saved.res,
             file |-> saved.file]
    ELSE IF fault = "read" THEN [res |-> Err("Io"), file |-> f]
    ELSE LET parsed == FromStr(Unwrap(f))
         IN  IF ~IsOk(parsed) THEN [res |-> parsed, file |-> f]
             ELSE LET saved == Save(Unwrap(parsed.value), f, fault)
                  IN  [res  |-> IF IsOk(saved.res) THEN parsed ELSE saved.res,
                       file |-> saved.file]

\* load_or_create with the default saved over a file that did not parse
LoadOrCreateRewrites(f, fault) ==
    IF fault = "mkdir" THEN [res |-> Err("Io"), file |-> f]
    ELSE IF IsSome(f) /\ fault = "read" THEN [res |-> Err("Io"), file |-> f]
    ELSE LET parsed == IF IsSome(f) THEN FromStr(Unwrap(f)) ELSE Err("absent")
             c == IF IsOk(parsed) THEN Unwrap(parsed.value) ELSE DefaultConfig
             saved == Save(c, f, fault)
         IN  [res |-> IF IsOk(saved.res) THEN Ok(c) ELSE saved.res, file |-> saved.file]

\* AppConfig::load_or_create: [res |-> Result<Self, ConfigError>, file |-> afterwards]
LoadOrCreate(f, fault) ==
    IF fault = "mkdir" THEN [res |-> Err("Io"), file |-> f]
    ELSE IF ~IsSome(f) THEN
        LET saved == Save(DefaultConfig, f, fault)
        IN  [res  |-> IF IsOk(saved.res) THEN Ok(DefaultConfig) ELSE saved.res,
             file |-> saved.file]
    ELSE IF fault = "read" THEN [res |-> Err("Io"), file |-> f]
    ELSE LET parsed == FromStr(Unwrap(f))
         IN  IF ~IsOk(parsed) THEN [res |-> Ok(DefaultConfig), file |-> f]
             ELSE LET saved == Save(Unwrap(parsed.value), f, fault)
                  IN  [res  |-> IF IsOk(saved.res) THEN parsed ELSE saved.res,
                       file |-> saved.file]

----------------------------------------------------------------------------
\* OpenGlBackend::build_context

Levels == {0, 1, 2, 4, 8, 16}
ErrTexts == {"NoAvailablePixelFormat", "OsError"}
U16 == 65536

ContextConfigurationUnhalved(m, e) == [msaa |-> m * 2, error |-> e]
ContextConfiguration(m, e) == [msaa |-> m, error |-> e]

\* context.build_windowed(...) at the level the builder now holds
BuildWindowed(level) == level \in accepts

\* `let mut msaa: u16 = 8 * 2` and the two empty locals
BuildContextEnter ==
    /\ msaa' = (8 * 2) % U16
    /\ attempted_configurations' = <<>>
    /\ successful_configuration' = None

\* The level one pass of the loop asks for: msaa is halved before the build.
NextLevelUnhalved(m) == m
NextLevel(m) == IF m > 0 THEN m \div 2 ELSE m

\* The loop is over: a context was built (break) or msaa reached 0.
BuildContextDoneAtOne == IsSome(successful_configuration) \/ msaa <= 1
BuildContextDone == IsSome(successful_configuration) \/ ~(msaa > 0)

\* One pass of `while msaa > 0`
ContextAttempt ==
    /\ pc = "build_context"
    /\ ~BuildContextDone
    /\ msaa' = NextLevel(msaa)
    /\ IF BuildWindowed(msaa')
         THEN /\ successful_configuration' = Some(msaa')
              /\ requested' = Append(requested, [msaa |-> msaa', result |-> "Ok"])
              /\ UNCHANGED attempted_configurations
         ELSE /\ \E e \in ErrTexts :
                    /\ requested' = Append(requested, [msaa |-> msaa', result |-> e])
                    /\ attempted_configurations' =
                          Append(attempted_configurations, ContextConfiguration(msaa', e))
              /\ UNCHANGED successful_configuration
    /\ UNCHANGED <<pc, ret, file, config, loadCall, hist, accepts, lock, threads, effects, app, accepted, frame, win, input, state,
                   clipboard, last_window_position, last_window_size, control_flow, calls>>

\* build_context's return value
BuildContextResult ==
    IF IsSome(successful_configuration)
    THEN [tag |-> "Ok", level |-> successful_configuration, tried |-> <<>>]
    ELSE [tag |-> "Err", level |-> None, tried |-> attempted_configurations]

----------------------------------------------------------------------------
\* RunnableApp::try_run_with_language

PhysicalSize(w, h) == [width |-> w, height |-> h]
PhysicalPosition(x, y) == [x |-> x, y |-> y]

\* What the platform reports in resize and move events, and where it places a
\* window nobody positioned.
Sizes == {PhysicalSize(640, 480), PhysicalSize(1920, 1080)}
Positions == {PhysicalPosition(-1, 3), PhysicalPosition(3, -1),
              PhysicalPosition(0, 0), PhysicalPosition(10, 10)}

\* App::build() and App::default_window_size(size)
App(size) == [default_window_size |-> size]
Apps == {App(<<1024, 600>>), App(<<800, 600>>)}

\* Where the platform puts a window that was given no position.
Placements == {PhysicalPosition(0, 0), PhysicalPosition(-1, 3)}

MaxFrames == 2
MaxInstances == 1

\* try_run_with_language's result: Error::Config(..) or Error::Backend(..), the
\* latter holding the backend's error and, for CannotInitializeBackend, its
\* TriedConfigurations.
NoReturn == [tag |-> "none", kind |-> "", error |-> "", tried |-> <<>>]
ReturnOk == [tag |-> "Ok", kind |-> "", error |-> "", tried |-> <<>>]
ReturnErr(kind, error, tried) == [tag |-> "Err", kind |-> kind, error |-> error, tried |-> tried]

NoCalls == [init_state |-> 0, clipboard_init |-> 0, process |-> 0, next_state |-> 0,
            report_error |-> 0, finish_frame |-> 0, write |-> 0]
Called(what) == calls' = [calls EXCEPT ![what] = @ + 1]

\* load_or_create().unwrap_or_default() in place of `?`
LoadConfigUnchecked ==
    /\ pc = "start"
    /\ \E fault \in FaultsOf(file) :
          LET r == LoadOrCreate(file, fault)
          IN  /\ file' = r.file
              /\ loadCall' = Some([before |-> file, fault |-> fault, res |-> r.res,
                                    after |-> r.file])
              /\ config' = IF IsOk(r.res) THEN r.res.value ELSE Some(DefaultConfig)
              /\ pc' = "open_window"
    /\ UNCHANGED <<ret, hist, accepts, lock, threads, effects, app, accepted, frame, requested, msaa, attempted_configurations,
                   successful_configuration, win, input, state, clipboard,
                   last_window_position, last_window_size, control_flow, calls>>

\* `let mut config = T::Config::load_or_create()?;`
LoadConfig ==
    /\ pc = "start"
    /\ \E fault \in FaultsOf(file) :
          LET r == LoadOrCreate(file, fault)
          IN  /\ file' = r.file
              /\ loadCall' = Some([before |-> file, fault |-> fault, res |-> r.res,
                                    after |-> r.file])
              /\ IF IsOk(r.res)
                   THEN /\ config' = r.res.value
                        /\ pc' = "open_window"
                        /\ UNCHANGED ret
                   ELSE /\ ret' = ReturnErr("Config", r.res.err, <<>>)
                        /\ pc' = "returned"
                        /\ UNCHANGED config
    /\ UNCHANGED <<hist, accepts, lock, threads, effects, app, accepted, frame, requested, msaa, attempted_configurations,
                   successful_configuration, win, input, state, clipboard,
                   last_window_position, last_window_size, control_flow, calls>>

\* The inner size the window builder asks for.
BuilderSize(c) ==
    IF IsSome(c.window)
    THEN PhysicalSize(Unwrap(c.window).width, Unwrap(c.window).height)
    ELSE PhysicalSize(1024, 600)

\* The window builder is set up and Backend::new enters build_context.
OpenWindow ==
    /\ pc = "open_window"
    /\ BuildContextEnter
    /\ pc' = "build_context"
    /\ UNCHANGED <<ret, file, config, loadCall, hist, accepts, lock, threads, effects, app, accepted, frame, requested, win, input, state,
                   clipboard, last_window_position, last_window_size, control_flow, calls>>

\* build_context found no level: Backend::new fails and `?` returns Error::Backend.
BackendFailed ==
    /\ pc = "build_context"
    /\ BuildContextDone
    /\ BuildContextResult.tag = "Err"
    /\ ret' = ReturnErr("Backend", "CannotInitializeBackend", BuildContextResult.tried)
    /\ pc' = "returned"
    /\ UNCHANGED <<file, config, loadCall, hist, accepts, lock, threads, effects, app, accepted, frame, requested, msaa,
                   attempted_configurations, successful_configuration, win, input, state,
                   clipboard, last_window_position, last_window_size, control_flow, calls>>

\* build_context returned a context: the rest of Backend::new (FreeType may fail),
\* then the window is positioned and maximized as the config says.
BackendReady ==
    /\ pc = "build_context"
    /\ BuildContextDone
    /\ BuildContextResult.tag = "Ok"
    /\ \E freetype \in BOOLEAN, placed \in Placements :
          IF freetype
          THEN LET c == Unwrap(config)
               IN  /\ win' = Some([inner_size |-> BuilderSize(c),
                                   outer_position |->
                                       IF IsSome(c.window)
                                       THEN PhysicalPosition(Unwrap(c.window).x,
                                                             Unwrap(c.window).y)
                                       ELSE placed,
                                   maximized |-> IsSome(c.window)
                                                 /\ Unwrap(c.window).maximized,
                                   msaa |-> Unwrap(BuildContextResult.level),
                                   context_size |-> BuilderSize(c),
                                   surface |-> BuilderSize(c),
                                   resized |-> FALSE])
                   /\ pc' = "init_state"
                   /\ UNCHANGED ret
          ELSE /\ ret' = ReturnErr("Backend", "CannotInitializeFreetype", <<>>)
               /\ pc' = "returned"
               /\ UNCHANGED win
    /\ msaa' = 0
    /\ attempted_configurations' = <<>>
    /\ successful_configuration' = None
    /\ UNCHANGED <<file, config, loadCall, hist, accepts, lock, threads, effects, app, accepted, frame, requested, input, state,
                   clipboard, last_window_position, last_window_size, control_flow, calls>>

\* One thing a step did for the user or the log: a log::error! line, an alert,
\* a language load, a write into a fixed buffer, a call of the default panic hook.
Effect(what, about, ok) == [what |-> what, about |-> about, ok |-> ok]

\* The language cell handed to try_run_with_language: empty, or a language the
\* application has loaded.
LanguageCell == {None, Some("pl")}

\* LanguageMap::load_language: the map has no such code, its FTL does not load
\* (this logs), or the language is returned.
LoadLanguage(found) ==
    CASE found = "Ok" -> <<Effect("load_language", "en-US", TRUE)>>
      [] found = "NoTranslations" -> <<Effect("load_language", "en-US", FALSE)>>
      [] found = "InvalidFTL" -> <<Effect("log", "error while loading language", TRUE),
                                   Effect("load_language", "en-US", FALSE)>>

\* What report_error is run with: the cell's content, what load_language("en-US")
\* returns if it is called, and whether the alert can be shown.
ReportInputs ==
    {[language |-> l, found |-> "Ok", alert |-> a] : l \in LanguageCell, a \in BOOLEAN}
    \cup {[language |-> None, found |-> f, alert |-> TRUE] :
              f \in {"NoTranslations", "InvalidFTL"}}

\* report_error that loads en-US whatever the cell holds
ReportErrorAlwaysFallback(r) ==
    <<Effect("report_error", IF IsSome(r.language) THEN Unwrap(r.language) ELSE "", TRUE)>>
    \o LoadLanguage(r.found)
    \o (IF r.found # "Ok" THEN <<>>
        ELSE <<Effect("log", "en-US", TRUE), Effect("alert", "en-US", r.alert)>>)

\* report_error: `language.unwrap_or_else(|| load_language("en-US").expect(..))`,
\* the message is formatted, log::error!, then show_alert().unwrap().  The
\* effects start with the call and the language it was handed ("" for None) and
\* end where it panics.
ReportError(r) ==
    LET code == IF IsSome(r.language) THEN Unwrap(r.language) ELSE "en-US" IN
    <<Effect("report_error", IF IsSome(r.language) THEN Unwrap(r.language) ELSE "", TRUE)>>
    \o (IF IsSome(r.language) THEN <<>> ELSE LoadLanguage(r.found))
    \o (IF ~IsSome(r.language) /\ r.found # "Ok" THEN <<>>
        ELSE <<Effect("log", code, TRUE), Effect("alert", code, r.alert)>>)

\* report_error panics: `expect` on the fallback, or `unwrap` on the alert.
ReportPanics(r) == (~IsSome(r.language) /\ r.found # "Ok") \/ ~r.alert

\* What the panic hook meets: whether title and message fit their buffers and
\* whether the alert can be shown.  Four cases that have every two of the
\* three both ways.
HookInputs ==
    {[title_fits |-> TRUE, message_fits |-> TRUE, alert |-> TRUE],
     [title_fits |-> FALSE, message_fits |-> FALSE, alert |-> TRUE],
     [title_fits |-> FALSE, message_fits |-> TRUE, alert |-> FALSE],
     [title_fits |-> TRUE, message_fits |-> FALSE, alert |-> FALSE]}

\* A hook that leaves out the default hook when its alert was not shown
HookSuppressing(h) ==
    <<Effect("write", "title", h.title_fits), Effect("write", "message", h.message_fits),
      Effect("alert", "fatal", h.alert)>>
    \o (IF h.alert THEN <<Effect("default_hook", "", TRUE)>> ELSE <<>>)

\* The panic hook run installs: title and message are written into an
\* ArrayString<64> and an ArrayString<4096> with the results of write! dropped,
\* show_alert's result is dropped, then default_panic_hook(panic_info).
Hook(h) ==
    <<Effect("write", "title", h.title_fits), Effect("write", "message", h.message_fits),
      Effect("alert", "fatal", h.alert), Effect("default_hook", "", TRUE)>>

\* A panic runs the hook and unwinds try_run_with_language: the window, the
\* input tracker, the state and the remembered geometry are dropped.
Unwound ==
    /\ pc' = "aborted"
    /\ win' = None
    /\ input' = FALSE
    /\ state' = None
    /\ last_window_position' = None
    /\ last_window_size' = None
    /\ accepted' = None

\* init_state whose error is reported and then ignored
InitStateContinues ==
    /\ pc = "init_state"
    /\ \/ /\ state' = Some(0)
          /\ calls' = [calls EXCEPT !.init_state = @ + 1]
          /\ UNCHANGED effects
       \/ \E r \in {x \in ReportInputs : ~ReportPanics(x)} :
             /\ calls' = [calls EXCEPT !.init_state = @ + 1, !.report_error = @ + 1]
             /\ effects' = ReportError(r)
             /\ state' = Some(0)
    /\ pc' = "clipboard"
    /\ UNCHANGED <<ret, file, config, loadCall, hist, accepts, lock, threads, app, frame,
                   requested, msaa, attempted_configurations, successful_configuration,
                   clipboard, control_flow, win, input, last_window_position,
                   last_window_size, accepted>>

\* `(self.init_state)()` and, on its error, report_error and `return Ok(())`
InitState ==
    /\ pc = "init_state"
    /\ \/ /\ state' = Some(0)
          /\ pc' = "clipboard"
          /\ calls' = [calls EXCEPT !.init_state = @ + 1]
          /\ UNCHANGED <<ret, effects, win, input, last_window_position, last_window_size,
                         accepted>>
       \/ \E r \in ReportInputs :
             /\ calls' = [calls EXCEPT !.init_state = @ + 1, !.report_error = @ + 1]
             /\ IF ReportPanics(r)
                  THEN /\ \E h \in HookInputs : effects' = ReportError(r) \o Hook(h)
                       /\ Unwound
                       /\ UNCHANGED ret
                  ELSE /\ effects' = ReportError(r)
                       /\ pc' = "returned"
                       /\ ret' = ReturnOk
                       /\ UNCHANGED <<state, win, input, last_window_position,
                                      last_window_size, accepted>>
    /\ UNCHANGED <<file, config, loadCall, hist, accepts, lock, threads, app, frame,
                   requested, msaa, attempted_configurations, successful_configuration,
                   clipboard, control_flow>>

\* clipboard::init: the slot is filled only when Clipboard::new succeeds.
ClipboardInitResult(ok) == IF ok THEN TRUE ELSE clipboard

\* The remembered geometry with the config's width and height in each other's place
InitialGeometryTransposed(c, w) ==
    IF IsSome(c.window)
    THEN [position |-> PhysicalPosition(Unwrap(c.window).x, Unwrap(c.window).y),
          size |-> PhysicalSize(Unwrap(c.window).height, Unwrap(c.window).width)]
    ELSE [position |-> w.outer_position, size |-> w.inner_size]

\* The remembered geometry the event loop starts with.
InitialGeometry(c, w) ==
    IF IsSome(c.window)
    THEN [position |-> PhysicalPosition(Unwrap(c.window).x, Unwrap(c.window).y),
          size |-> PhysicalSize(Unwrap(c.window).width, Unwrap(c.window).height)]
    ELSE [position |-> w.outer_position, size |-> w.inner_size]

\* The loop entered with clipboard::init left for the first clipboard use
StartLoopLazy ==
    /\ pc = "clipboard"
    /\ last_window_position' = Some(InitialGeometry(Unwrap(config), Unwrap(win)).position)
    /\ last_window_size' = Some(InitialGeometry(Unwrap(config), Unwrap(win)).size)
    /\ accepted' = Some([position |-> InitialGeometry(Unwrap(config), Unwrap(win)).position,
                         size |-> InitialGeometry(Unwrap(config), Unwrap(win)).size,
                         touched |-> FALSE])
    /\ pc' = "loop"
    /\ UNCHANGED <<ret, file, config, loadCall, hist, accepts, lock, threads, effects, app,
                   frame, requested, msaa, attempted_configurations,
                   successful_configuration, win, input, state, clipboard, control_flow,
                   calls>>

\* clipboard::init()? in place of the match: a failure is returned
StartLoopStrict ==
    /\ pc = "clipboard"
    /\ \E ok \in BOOLEAN :
          /\ clipboard' = ClipboardInitResult(ok)
          /\ pc' = IF ok THEN "loop" ELSE "returned"
          /\ ret' = IF ok THEN ret ELSE ReturnErr("Clipboard", "Unknown", <<>>)
    /\ Called("clipboard_init")
    /\ last_window_position' = Some(InitialGeometry(Unwrap(config), Unwrap(win)).position)
    /\ last_window_size' = Some(InitialGeometry(Unwrap(config), Unwrap(win)).size)
    /\ accepted' = Some([position |-> InitialGeometry(Unwrap(config), Unwrap(win)).position,
                         size |-> InitialGeometry(Unwrap(config), Unwrap(win)).size,
                         touched |-> FALSE])
    /\ UNCHANGED <<file, config, loadCall, hist, accepts, lock, threads, effects, app, frame,
                   requested, msaa, attempted_configurations, successful_configuration, win,
                   input, state, control_flow>>

\* clipboard::init() with its failure only logged, then the remembered geometry
\* is set up and event_loop.run starts.
StartLoop ==
    /\ pc = "clipboard"
    /\ \E ok \in BOOLEAN :
          /\ clipboard' = ClipboardInitResult(ok)
          /\ effects' = IF ok THEN <<>>
                        ELSE <<Effect("log", "failed to initialize clipboard", TRUE)>>
    /\ Called("clipboard_init")
    /\ last_window_position' = Some(InitialGeometry(Unwrap(config), Unwrap(win)).position)
    /\ last_window_size' = Some(InitialGeometry(Unwrap(config), Unwrap(win)).size)
    /\ accepted' = Some([position |-> InitialGeometry(Unwrap(config), Unwrap(win)).position,
                         size |-> InitialGeometry(Unwrap(config), Unwrap(win)).size,
                         touched |-> FALSE])
    /\ pc' = "loop"
    /\ UNCHANGED <<ret, file, config, loadCall, hist, accepts, lock, threads, app, frame,
                   requested, msaa, attempted_configurations, successful_configuration, win,
                   input, state, control_flow>>

\* The closure starts every call with `*control_flow = ControlFlow::Poll`; winit
\* keeps Exit once it was set.
Poll == IF control_flow = "Exit" THEN "Exit" ELSE "Poll"

\* Resized that also stores the new size in the config
ResizedPersisting ==
    /\ pc = "loop"
    /\ \E new_size \in Sizes, maximized \in BOOLEAN :
          /\ win' = Some([Unwrap(win) EXCEPT !.inner_size = new_size,
                                             !.maximized = maximized])
          /\ last_window_size' = IF ~maximized THEN Some(new_size) ELSE last_window_size
          /\ input' = IF maximized THEN TRUE ELSE input
          /\ accepted' = IF maximized THEN accepted
                         ELSE Some([Unwrap(accepted) EXCEPT !.size = new_size,
                                                         !.touched = TRUE])
          /\ config' = Some([Unwrap(config) EXCEPT !.window =
                                Some(WindowConfig(Unwrap(last_window_position).x,
                                                  Unwrap(last_window_position).y,
                                                  new_size.width, new_size.height,
                                                  maximized))])
    /\ control_flow' = Poll
    /\ UNCHANGED <<pc, ret, file, loadCall, hist, accepts, lock, threads, effects, app, frame,
                   requested, msaa, attempted_configurations, successful_configuration,
                   state, clipboard, last_window_position, calls>>

\* Resized without the is_maximized guard
ResizedSizeUnguarded(new_size, maximized) == Some(new_size)

\* WindowEvent::Resized(new_size); the window is maximized or not as the
\* platform has it at that moment.
ResizedSize(new_size, maximized) ==
    IF ~maximized THEN Some(new_size) ELSE last_window_size

Resized ==
    /\ pc = "loop"
    /\ \E new_size \in Sizes, maximized \in BOOLEAN :
          /\ win' = Some([Unwrap(win) EXCEPT !.inner_size = new_size,
                                             !.maximized = maximized])
          /\ last_window_size' = ResizedSize(new_size, maximized)
          /\ input' = IF maximized THEN TRUE ELSE input
          /\ accepted' = IF maximized THEN accepted
                         ELSE Some([Unwrap(accepted) EXCEPT !.size = new_size,
                                                         !.touched = TRUE])
    /\ control_flow' = Poll
    /\ UNCHANGED <<pc, ret, file, config, loadCall, hist, accepts, lock, threads, effects, app, frame, requested, msaa,
                   attempted_configurations, successful_configuration, state, clipboard,
                   last_window_position, calls>>

\* Moved without the guard on the coordinates
MovedPositionUnguarded(new_position) == Some(new_position)

\* WindowEvent::Moved(new_position)
MovedPosition(new_position) ==
    IF new_position.x >= 0 /\ new_position.y >= 0
    THEN Some(new_position) ELSE last_window_position

Moved ==
    /\ pc = "loop"
    /\ \E new_position \in Positions :
          /\ win' = Some([Unwrap(win) EXCEPT !.outer_position = new_position])
          /\ last_window_position' = MovedPosition(new_position)
          /\ input' = IF new_position.x >= 0 /\ new_position.y >= 0 THEN input ELSE TRUE
          /\ accepted' = IF new_position.x < 0 \/ new_position.y < 0 THEN accepted
                         ELSE Some([Unwrap(accepted) EXCEPT !.position = new_position,
                                                         !.touched = TRUE])
    /\ control_flow' = Poll
    /\ UNCHANGED <<pc, ret, file, config, loadCall, hist, accepts, lock, threads, effects, app, frame, requested, msaa,
                   attempted_configurations, successful_configuration, state, clipboard,
                   last_window_size, calls>>

\* WindowEvent::CloseRequested
CloseRequested ==
    /\ pc = "loop"
    /\ control_flow' = "Exit"
    /\ UNCHANGED <<pc, ret, file, config, loadCall, hist, accepts, lock, threads, effects, app, accepted, frame, requested, msaa,
                   attempted_configurations, successful_configuration, win, input, state,
                   clipboard, last_window_position, last_window_size, calls>>

\* Any other window event: input.process_event(&event)
OtherWindowEvent ==
    /\ pc = "loop"
    /\ input' = TRUE
    /\ control_flow' = Poll
    /\ UNCHANGED <<pc, ret, file, config, loadCall, hist, accepts, lock, threads, effects, app, accepted, frame, requested, msaa,
                   attempted_configurations, successful_configuration, win, state,
                   clipboard, last_window_position, last_window_size, calls>>

vars == <<pc, ret, file, config, loadCall, hist, accepts, lock, threads, effects, app, accepted, frame, requested, msaa,
          attempted_configurations, successful_configuration, win, input, state, clipboard,
          last_window_position, last_window_size, control_flow, calls>>
\* next_state's outcomes: the same instance, any other one, or an error (None).
Successors(id) == {Some(i) : i \in 0..MaxInstances} \cup {None}

\* One call of a redraw tick: what was called, on which state instance (None
\* when it is no state's method), whether it succeeded, and the state returned.
Invoke(call, on, ok, result) == [call |-> call, on |-> on, ok |-> ok, result |-> result]

\* and_then replaced by a call that does not look at process's result
AndThenAlways(processed) == TRUE

\* `.process(..).and_then(|()| state.take().unwrap().next_state(..))`: next_state
\* runs when process returned Ok.
AndThen(processed) == processed

\* The slot keeps the state that was processed
SlotAfterKept(processed, next) == state

\* The slot after the tick: untouched when process failed, else emptied by
\* take() and filled by `state = Some(next_state)` when next_state returned Ok.
SlotAfter(processed, next) == IF AndThen(processed) THEN next ELSE state

\* The error arm without `*control_flow = ControlFlow::Exit`
FrameControlFlowContinue(ok) == Poll

\* control_flow after the match on the result
FrameControlFlow(ok) == IF ok THEN Poll ELSE "Exit"

\* finish_frame skipped when render_frame returned an error
FinishFrameIfRendered(rendered) ==
    IF rendered THEN <<Invoke("finish_frame", None, TRUE, None)>> ELSE <<>>

\* `input.finish_frame(ui.window())` after render_frame's result was matched
FinishFrame(rendered) == <<Invoke("finish_frame", None, TRUE, None)>>

\* The calls of one tick on the state `id`, in order.  process and next_state
\* return as `processed` and `next` say; report_error returns when the alert
\* could be shown and panics when not (`show_alert().unwrap()`), which ends the
\* tick there; swap_buffers runs when the callback has returned.
FrameCalls(id, processed, next, alert, presented) ==
    LET ok == processed /\ IsSome(next) IN
    <<Invoke("process", Some(id), processed, None)>>
    \o (IF AndThen(processed)
        THEN <<Invoke("next_state", Some(id), IsSome(next), next)>> ELSE <<>>)
    \o (IF ok THEN <<>> ELSE <<Invoke("report_error", None, alert, None)>>)
    \o (IF ~ok /\ ~alert THEN <<>>
        ELSE <<Invoke("swap_buffers", None, presented, None)>> \o FinishFrame(presented))

RECURSIVE Count(_, _)
Count(calls_made, what) ==
    IF calls_made = <<>> THEN 0
    ELSE (IF Head(calls_made).call = what THEN 1 ELSE 0) + Count(Tail(calls_made), what)

\* The report_error inputs of a tick that reports nothing
NoReport == {[language |-> Some("pl"), found |-> "Ok", alert |-> TRUE]}

\* render_frame: `if self.context_size != window_size`
ResizeNeeded(w) == w.context_size # w.inner_size

\* render_frame up to the callback: context.resize(window_size) when the test
\* says so; context_size is assigned nowhere but in OpenGlBackend::new.
RenderFrame(w) ==
    [w EXCEPT !.surface = IF ResizeNeeded(w) THEN w.inner_size ELSE @,
              !.resized = ResizeNeeded(w)]

\* A render error handed to report_error
RenderResultReported(presented) ==
    IF presented THEN <<>>
    ELSE <<Effect("report_error", "", TRUE), Effect("alert", "en-US", TRUE)>>

\* `if let Err(error) = ui.render_frame(..) { log::error!("render error: {}", error) }`
RenderResult(presented) ==
    IF presented THEN <<>> ELSE <<Effect("log", "render error", TRUE)>>

\* An event loop that starts another iteration although Exit is set
AfterMainEventsClearedIterates(flow) == "loop"

\* event_loop.run after the closure returned from MainEventsCleared: the
\* iteration is over, and with Exit set the loop is destroyed.
AfterMainEventsCleared(flow) == IF flow = "Exit" THEN "destroy" ELSE "loop"

\* Event::MainEventsCleared: one frame.  Unwrapping an empty slot panics, and so
\* does report_error when it cannot load its fallback language or show its
\* alert.  A render error is logged.  The event loop ends its iteration after
\* this event: with Exit set, LoopDestroyed is what comes next.
MainEventsCleared ==
    /\ pc = "loop"
    /\ calls.process < MaxFrames
    /\ IF ~IsSome(state)
         THEN /\ \E h \in HookInputs : effects' = Hook(h)
              /\ Unwound
              /\ UNCHANGED <<calls, frame>>
              /\ control_flow' = Poll
         ELSE \E processed \in BOOLEAN :
              \E next \in (IF AndThen(processed) THEN Successors(Unwrap(state)) ELSE {None}) :
              \E panicked \in (IF processed /\ IsSome(next) THEN {FALSE} ELSE BOOLEAN) :
              \E presented \in (IF panicked THEN {FALSE} ELSE BOOLEAN) :
                 LET ok == processed /\ IsSome(next)
                 IN  /\ frame' = FrameCalls(Unwrap(state), processed, next, ~panicked, presented)
                     /\ calls' = [what \in DOMAIN calls |-> calls[what] + Count(frame', what)]
                     /\ control_flow' = IF panicked \/ control_flow = "Exit" THEN Poll
                                        ELSE FrameControlFlow(ok)
                     /\ IF panicked
                          THEN /\ \E r \in {x \in ReportInputs : ReportPanics(x)},
                                     h \in HookInputs :
                                     effects' = ReportError(r) \o Hook(h)
                               /\ Unwound
                          ELSE /\ \E r \in (IF ok THEN NoReport
                                             ELSE {x \in ReportInputs : ~ReportPanics(x)}) :
                                     effects' = (IF ok THEN <<>> ELSE ReportError(r))
                                                \o RenderResult(presented)
                               /\ state' = SlotAfter(processed, next)
                               /\ input' = FALSE
                               /\ pc' = AfterMainEventsCleared(control_flow')
                               /\ win' = Some(RenderFrame(Unwrap(win)))
                               /\ UNCHANGED <<last_window_position, last_window_size,
                                              accepted>>
    /\ UNCHANGED <<ret, file, config, loadCall, hist, accepts, lock, threads, app, requested,
                   msaa, attempted_configurations, successful_configuration, clipboard>>

\* config.write(f): f is applied to the config, then the config is saved; a
\* failed save is logged and nothing else.
ConfigWrite(c, f, fault, window) ==
    LET changed == [c EXCEPT !.window = Some(window)]
    IN  [config |-> changed, file |-> Save(changed, f, fault).file,
         res |-> Save(changed, f, fault).res]

\* The geometry LoopDestroyed hands to the config, taken from the live window
FinalWindowConfigLive ==
    WindowConfig(Unwrap(win).outer_position.x, Unwrap(win).outer_position.y,
                 Unwrap(win).inner_size.width, Unwrap(win).inner_size.height,
                 Unwrap(win).maximized)

\* The geometry LoopDestroyed hands to the config: `position`, `size` and
\* `maximized` of the handler.
FinalWindowConfig ==
    LET position == Unwrap(last_window_position)
        size == Unwrap(last_window_size)
        maximized == Unwrap(win).maximized
    IN  WindowConfig(position.x, position.y, size.width, size.height, maximized)

\* LoopDestroyed with a failed write treated as fatal
LoopDestroyedEscalates ==
    /\ \/ pc = "loop" /\ control_flow = "Exit"
       \/ pc = "destroy"
    /\ \E fault \in {"none", "write_open", "write_data"} :
          LET w == ConfigWrite(Unwrap(config), file, fault, FinalWindowConfig)
          IN  /\ config' = Some(w.config)
              /\ file' = w.file
              /\ hist' = Append(hist, [op |-> "write", ok |-> IsOk(w.res),
                                        file |-> w.file, config |-> Some(w.config)])
              /\ effects' = IF IsOk(w.res) THEN <<>>
                            ELSE <<Effect("log", "cannot save config", TRUE)>>
              /\ pc' = IF IsOk(w.res) THEN "exited" ELSE "aborted"
    /\ Called("write")
    /\ UNCHANGED <<ret, loadCall, accepts, lock, threads, app, accepted, frame, requested,
                   msaa, attempted_configurations, successful_configuration, win, input,
                   state, clipboard, last_window_position, last_window_size, control_flow>>

\* Event::LoopDestroyed
LoopDestroyed ==
    /\ \/ pc = "loop" /\ control_flow = "Exit"
       \/ pc = "destroy"
    /\ \E fault \in {"none", "write_open", "write_data"} :
          LET w == ConfigWrite(Unwrap(config), file, fault, FinalWindowConfig)
          IN  /\ config' = Some(w.config)
              /\ file' = w.file
              /\ hist' = Append(hist, [op |-> "write", ok |-> IsOk(w.res),
                                        file |-> w.file, config |-> Some(w.config)])
              /\ effects' = IF IsOk(w.res) THEN <<>>
                            ELSE <<Effect("log", "cannot save config", TRUE)>>
    /\ Called("write")
    /\ pc' = "exited"
    /\ UNCHANGED <<ret, loadCall, accepts, lock, threads, app, accepted, frame, requested,
                   msaa, attempted_configurations, successful_configuration, win, input,
                   state, clipboard, last_window_position, last_window_size, control_flow>>

\* try_run_with_language has returned to run: Ok is dropped, an Err is logged.
RunMatch(result) ==
    IF result.tag = "Err" THEN <<Effect("log", result.kind, TRUE)>> ELSE <<>>

RunReturned ==
    /\ pc = "returned"
    /\ effects' = effects \o RunMatch(ret)
    /\ pc' = "done"
    /\ UNCHANGED <<ret, file, config, loadCall, hist, accepts, lock, threads, app, accepted,
                   frame, requested, msaa, attempted_configurations,
                   successful_configuration, win, input, state, clipboard,
                   last_window_position, last_window_size, control_flow, calls>>


----------------------------------------------------------------------------
Languages == {"en-US", "pl"}

\* A file of a version that did not write `maximized`.
OldFile ==
    Some(<< Pair("language", StrV("pl")), Table("window"),
            Pair("x", IntV(5)), Pair("y", IntV(7)),
            Pair("width", IntV(800)), Pair("height", IntV(600)) >>)

\* A hand-edited file: keys in another order and a key the config does not know.
EditedFile ==
    Some(<< Pair("theme", StrV("dark")), Pair("language", StrV("en-US")),
            Table("window"), Pair("maximized", BoolV(FALSE)),
            Pair("height", IntV(600)), Pair("width", IntV(800)),
            Pair("y", IntV(7)), Pair("x", IntV(-5)) >>)

\* Files that are TOML but no config: an empty file, a window table that lacks
\* `width`, a negative width, a language that is no string.
BadFiles ==
    { Some(<<>>),
      Some(<< Pair("language", StrV("en-US")), Table("window"),
              Pair("x", IntV(5)), Pair("y", IntV(7)), Pair("height", IntV(600)) >>),
      Some(<< Pair("language", StrV("en-US")), Table("window"),
              Pair("x", IntV(5)), Pair("y", IntV(7)), Pair("width", IntV(-800)),
              Pair("height", IntV(600)) >>),
      Some(<< Pair("language", IntV(1)) >>) }

\* Config files a run can find: none, text that is not TOML, files written by
\* save, and the files above.
InitialFiles ==
    { None,
      Some(<<Junk>>),
      Some(Serialize(DefaultConfig)),
      Some(Serialize(MyConfig("pl", Some(WindowConfig(5, 7, 800, 600, TRUE))))),
      OldFile,
      EditedFile } \cup BadFiles

\* The files and platforms the whole driver is run on.
DriverFiles == { None, Some(<<Junk>>), OldFile }
DriverPlatforms == { {}, {8} }

InitWith(files, platforms, apps) ==
    /\ pc = "start"
    /\ ret = NoReturn
    /\ file \in files
    /\ config = None
    /\ loadCall = None
    /\ hist = <<>>
    /\ accepts \in platforms
    /\ lock = None
    /\ threads = <<>>
    /\ effects = <<>>
    /\ app \in apps
    /\ accepted = None
    /\ frame = <<>>
    /\ requested = <<>>
    /\ msaa = 0
    /\ attempted_configurations = <<>>
    /\ successful_configuration = None
    /\ win = None
    /\ input = FALSE
    /\ state = None
    /\ clipboard = FALSE
    /\ last_window_position = None
    /\ last_window_size = None
    /\ control_flow = "Poll"
    /\ calls = NoCalls

Init == InitWith(DriverFiles, DriverPlatforms, {App(<<1024, 600>>)})

Next ==
    \/ LoadConfig
    \/ OpenWindow
    \/ ContextAttempt
    \/ BackendFailed
    \/ BackendReady
    \/ InitState
    \/ StartLoop
    \/ Resized
    \/ Moved
    \/ CloseRequested
    \/ OtherWindowEvent
    \/ MainEventsCleared
    \/ LoopDestroyed
    \/ RunReturned

Spec == Init /\ [][Next]_vars

\* Startup alone, up to the return of Backend::new, on every file and platform.
InitStartup == InitWith(InitialFiles, SUBSET Levels, Apps)

NextStartup ==
    \/ LoadConfig
    \/ OpenWindow
    \/ ContextAttempt
    \/ BackendFailed
    \/ BackendReady

SpecStartup == InitStartup /\ [][NextStartup]_vars
----------------------------------------------------------------------------
\* The config store used on its own: save, load_or_create and changes of the
\* in-memory config in any order.

MaxCalls == 3

Windows == { WindowConfig(5, 7, 800, 600, TRUE), WindowConfig(-5, 7, 1024, 600, FALSE) }
Configs == { MyConfig(l, w) : l \in Languages, w \in {None} \cup {Some(x) : x \in Windows} }

Call(op, ok) == [op |-> op, ok |-> ok, file |-> file', config |-> config']

\* config.save()
ApiSave ==
    /\ pc = "api"
    /\ Len(hist) < MaxCalls
    /\ \E fault \in {"none", "write_open", "write_data"} :
          LET r == Save(Unwrap(config), file, fault)
          IN  /\ file' = r.file
              /\ config' = config
              /\ hist' = Append(hist, Call("save", IsOk(r.res)))
    /\ UNCHANGED <<pc, ret, loadCall, accepts, lock, threads, effects, app, accepted, frame, requested, msaa, attempted_configurations,
                   successful_configuration, win, input, state, clipboard,
                   last_window_position, last_window_size, control_flow, calls>>

\* config = Config::load_or_create()?
ApiLoadOrCreate ==
    /\ pc = "api"
    /\ Len(hist) < MaxCalls
    /\ \E fault \in FaultsOf(file) :
          LET r == LoadOrCreate(file, fault)
          IN  /\ file' = r.file
              /\ config' = IF IsOk(r.res) THEN r.res.value ELSE config
              /\ hist' = Append(hist, Call("load_or_create", IsOk(r.res)))
    /\ UNCHANGED <<pc, ret, loadCall, accepts, lock, threads, effects, app, accepted, frame, requested, msaa, attempted_configurations,
                   successful_configuration, win, input, state, clipboard,
                   last_window_position, last_window_size, control_flow, calls>>

\* The holder of the config changes it in memory.
ApiMutate ==
    /\ pc = "api"
    /\ Len(hist) < MaxCalls
    /\ \E c \in Configs \ {Unwrap(config)} : config' = Some(c)
    /\ file' = file
    /\ hist' = Append(hist, Call("mutate", TRUE))
    /\ UNCHANGED <<pc, ret, loadCall, accepts, lock, threads, effects, app, accepted, frame, requested, msaa, attempted_configurations,
                   successful_configuration, win, input, state, clipboard,
                   last_window_position, last_window_size, control_flow, calls>>

\* The closures handed to write: each changes one field of the config.
Closures == {"set_language", "set_window", "clear_window"}

Apply(f, c) ==
    CASE f = "set_language" -> [c EXCEPT !.language = IF @ = "pl" THEN "en-US" ELSE "pl"]
      [] f = "set_window" -> [c EXCEPT !.window = Some(WindowConfig(0, 0, 640, 480, FALSE))]
      [] f = "clear_window" -> [c EXCEPT !.window = None]

\* write that saves before it applies the closure
WriteSavesFirst(c, f, on_disk, fault) ==
    [config |-> Apply(f, c), file |-> Save(c, on_disk, fault).file,
     res |-> Save(c, on_disk, fault).res]

\* config_module!'s write(f): f runs on the config under the write lock, the
\* lock is released, then save() writes the config's serialization.
Write(c, f, on_disk, fault) ==
    [config |-> Apply(f, c), file |-> Save(Apply(f, c), on_disk, fault).file,
     res |-> Save(Apply(f, c), on_disk, fault).res]

\* write(f); a failed save is logged.
ApiWrite ==
    /\ pc = "api"
    /\ Len(hist) < MaxCalls
    /\ \E f \in Closures, fault \in {"none", "write_open", "write_data"} :
          LET w == Write(Unwrap(config), f, file, fault)
          IN  /\ config' = Some(w.config)
              /\ file' = w.file
              /\ hist' = Append(hist, [op |-> "write", ok |-> IsOk(w.res), file |-> w.file,
                                        config |-> Some(w.config), before |-> config,
                                        f |-> f])
              /\ effects' = IF IsOk(w.res) THEN <<>>
                            ELSE <<Effect("log", "cannot save config", TRUE)>>
    /\ UNCHANGED <<pc, ret, loadCall, accepts, lock, threads, app, accepted, frame, requested,
                   msaa, attempted_configurations, successful_configuration, win, input,
                   state, clipboard, last_window_position, last_window_size, control_flow,
                   calls>>

InitConfig ==
    /\ pc = "api"
    /\ ret = NoReturn
    /\ file \in {None, Some(<<Junk>>), OldFile}
    /\ config \in {Some(c) : c \in Configs}
    /\ loadCall = None
    /\ hist = <<>>
    /\ accepts = {}
    /\ lock = None
    /\ threads = <<>>
    /\ effects = <<>>
    /\ app = App(<<1024, 600>>)
    /\ accepted = None
    /\ frame = <<>>
    /\ requested = <<>>
    /\ msaa = 0
    /\ attempted_configurations = <<>>
    /\ successful_configuration = None
    /\ win = None
    /\ input = FALSE
    /\ state = None
    /\ clipboard = FALSE
    /\ last_window_position = None
    /\ last_window_size = None
    /\ control_flow = "Poll"
    /\ calls = NoCalls

NextConfig ==
    \/ ApiSave
    \/ ApiLoadOrCreate
    \/ ApiMutate
    \/ ApiWrite

SpecConfig == InitConfig /\ [][NextConfig]_vars

\* The config module of config_module!: the static CONFIG cell (None until
\* set), load_or_create and write called in any order.

\* A cell whose set replaces what it holds
ConfigSetOverwrites(cell, value) == [cell |-> Some(value), ok |-> ~IsSome(cell)]

\* OnceCell::set: fills an empty cell, and is an error on a full one.
ConfigSet(cell, value) ==
    IF IsSome(cell) THEN [cell |-> cell, ok |-> FALSE]
    ELSE [cell |-> Some(value), ok |-> TRUE]

\* config_module!'s load_or_create: AppConfig::load_or_create with `?`, then
\* CONFIG.set, whose failure is ConfigIsAlreadyLoaded.
ModuleLoadOrCreate ==
    /\ pc = "module"
    /\ Len(hist) < MaxCalls
    /\ \E fault \in FaultsOf(file) :
          LET r == LoadOrCreate(file, fault)
              set == ConfigSet(config, Unwrap(r.res.value))
          IN  /\ file' = r.file
              /\ config' = IF IsOk(r.res) THEN set.cell ELSE config
              /\ hist' = Append(hist,
                     [op |-> "load_or_create", ok |-> IsOk(r.res) /\ set.ok,
                      err |-> IF ~IsOk(r.res) THEN r.res.err
                              ELSE IF set.ok THEN "" ELSE "ConfigIsAlreadyLoaded",
                      loaded |-> r.res.value, file |-> r.file, config |-> config',
                      before |-> config])
    /\ UNCHANGED <<pc, ret, loadCall, accepts, lock, threads, effects, app, accepted, frame,
                   requested, msaa, attempted_configurations, successful_configuration,
                   win, input, state, clipboard, last_window_position, last_window_size,
                   control_flow, calls>>

\* config_module!'s write(f); `expect` panics when nothing was loaded.
ModuleWrite ==
    /\ pc = "module"
    /\ Len(hist) < MaxCalls
    /\ IF ~IsSome(config)
         THEN /\ pc' = "aborted"
              /\ UNCHANGED <<config, file, hist, effects>>
         ELSE \E f \in Closures, fault \in {"none", "write_open", "write_data"} :
                 LET w == Write(Unwrap(config), f, file, fault)
                 IN  /\ config' = Some(w.config)
                     /\ file' = w.file
                     /\ hist' = Append(hist, [op |-> "write", ok |-> IsOk(w.res),
                                               file |-> w.file, config |-> Some(w.config),
                                               before |-> config, f |-> f])
                     /\ effects' = IF IsOk(w.res) THEN <<>>
                                   ELSE <<Effect("log", "cannot save config", TRUE)>>
                     /\ UNCHANGED pc
    /\ UNCHANGED <<ret, loadCall, accepts, lock, threads, app, accepted, frame, requested,
                   msaa, attempted_configurations, successful_configuration, win, input,
                   state, clipboard, last_window_position, last_window_size, control_flow,
                   calls>>

InitConfigModule ==
    /\ pc = "module"
    /\ ret = NoReturn
    /\ file \in {None, Some(<<Junk>>), OldFile, EditedFile}
    /\ config = None
    /\ loadCall = None
    /\ hist = <<>>
    /\ accepts = {}
    /\ lock = None
    /\ threads = <<>>
    /\ effects = <<>>
    /\ app = App(<<1024, 600>>)
    /\ accepted = None
    /\ frame = <<>>
    /\ requested = <<>>
    /\ msaa = 0
    /\ attempted_configurations = <<>>
    /\ successful_configuration = None
    /\ win = None
    /\ input = FALSE
    /\ state = None
    /\ clipboard = FALSE
    /\ last_window_position = None
    /\ last_window_size = None
    /\ control_flow = "Poll"
    /\ calls = NoCalls

NextConfigModule ==
    \/ ModuleLoadOrCreate
    \/ ModuleWrite

SpecConfigModule == InitConfigModule /\ [][NextConfigModule]_vars

\* The renderer on its own: the platform resizes the window, frames are
\* rendered, in any order.
RendererSizes == Sizes \cup {PhysicalSize(1024, 600)}

\* The platform gives the window another size.
RendererResized ==
    /\ pc = "renderer"
    /\ \E new_size \in RendererSizes \ {Unwrap(win).inner_size} :
          win' = Some([Unwrap(win) EXCEPT !.inner_size = new_size])
    /\ UNCHANGED <<pc, ret, file, config, loadCall, hist, accepts, lock, threads, effects, app,
                   accepted, frame, requested, msaa, attempted_configurations,
                   successful_configuration, input, state, clipboard,
                   last_window_position, last_window_size, control_flow, calls>>

\* render_frame with a callback that returns; swap_buffers succeeds or fails.
RendererRenderFrame ==
    /\ pc = "renderer"
    /\ Len(hist) < MaxCalls
    /\ win' = Some(RenderFrame(Unwrap(win)))
    /\ \E presented \in BOOLEAN :
          hist' = Append(hist, [op |-> "render_frame", ok |-> presented,
                                window_size |-> Unwrap(win).inner_size,
                                before |-> Unwrap(win).surface,
                                surface |-> Unwrap(win').surface,
                                resized |-> Unwrap(win').resized])
    /\ UNCHANGED <<pc, ret, file, config, loadCall, accepts, lock, threads, effects, app,
                   accepted, frame, requested, msaa, attempted_configurations,
                   successful_configuration, input, state, clipboard,
                   last_window_position, last_window_size, control_flow, calls>>

\* OpenGlBackend::new: context_size is the window's inner size, which is the
\* size the context was built with.
InitRenderer ==
    /\ pc = "renderer"
    /\ ret = NoReturn
    /\ file = None
    /\ config = None
    /\ loadCall = None
    /\ hist = <<>>
    /\ accepts = {8}
    /\ lock = None
    /\ threads = <<>>
    /\ effects = <<>>
    /\ app = App(<<1024, 600>>)
    /\ accepted = None
    /\ frame = <<>>
    /\ requested = <<>>
    /\ msaa = 0
    /\ attempted_configurations = <<>>
    /\ successful_configuration = None
    /\ \E size \in RendererSizes :
          win = Some([inner_size |-> size, outer_position |-> PhysicalPosition(0, 0),
                      maximized |-> FALSE, msaa |-> 8, context_size |-> size,
                      surface |-> size, resized |-> FALSE])
    /\ input = FALSE
    /\ state = None
    /\ clipboard = FALSE
    /\ last_window_position = None
    /\ last_window_size = None
    /\ control_flow = "Poll"
    /\ calls = NoCalls

NextRenderer ==
    \/ RendererResized
    \/ RendererRenderFrame

SpecRenderer == InitRenderer /\ [][NextRenderer]_vars

----------------------------------------------------------------------------
\* clipboard.rs used on its own: init and the four operations, in any order.

\* What a call into arboard returns: Ok or one of arboard::Error's variants.
ArboardErrors == {"ContentNotAvailable", "ClipboardNotSupported", "ClipboardOccupied",
                  "ConversionFailure", "Unknown"}
ArboardResults == {"Ok"} \cup ArboardErrors

\* impl From<arboard::Error> for ClipboardError
FromArboard(e) ==
    CASE e = "ContentNotAvailable" -> "ContentUnavailable"
      [] e = "ClipboardNotSupported" -> "NotSupported"
      [] e = "ClipboardOccupied" -> "Occupied"
      [] e = "ConversionFailure" -> "ConversionFailed"
      [] e = "Unknown" -> "Unknown"

\* What a clipboard function did: its result, and whether it called into the OS
\* clipboard.
Outcome(res, os) == [res |-> res, os |-> os]

\* copy_string without the test of the slot
CopyStringUnchecked(slot, r) ==
    Outcome(IF r = "Ok" THEN Ok("unit") ELSE Err("SaveFailed"), TRUE)

\* copy_string(string); r is what set_text returns
CopyString(slot, r) ==
    IF slot
    THEN Outcome(IF r = "Ok" THEN Ok("unit") ELSE Err("SaveFailed"), TRUE)
    ELSE Outcome(Err("Uninitialized"), FALSE)

\* copy_image(image); r is what set_image returns
CopyImage(slot, r) ==
    IF slot
    THEN Outcome(IF r = "Ok" THEN Ok("unit") ELSE Err("SaveFailed"), TRUE)
    ELSE Outcome(Err("Uninitialized"), FALSE)

\* paste_string with every arboard error converted by From
PasteStringUnmapped(slot, r) ==
    IF slot
    THEN Outcome(IF r = "Ok" THEN Ok("text") ELSE Err(FromArboard(r)), TRUE)
    ELSE Outcome(Err("Uninitialized"), FALSE)

\* paste_string(); r is what get_text returns
PasteString(slot, r) ==
    IF slot
    THEN Outcome(IF r = "Ok" THEN Ok("text")
                 ELSE IF r = "ContentNotAvailable" THEN Err("DoesNotContainText")
                 ELSE Err(FromArboard(r)), TRUE)
    ELSE Outcome(Err("Uninitialized"), FALSE)

\* paste_image(); r is what get_image returns
PasteImage(slot, r) ==
    IF slot
    THEN Outcome(IF r = "Ok" THEN Ok("image")
                 ELSE IF r = "ContentNotAvailable" THEN Err("DoesNotContainAnImage")
                 ELSE Err(FromArboard(r)), TRUE)
    ELSE Outcome(Err("Uninitialized"), FALSE)

\* init(); r is what Clipboard::new returns, `?` converts its error
ClipboardInit(r) ==
    Outcome(IF r = "Ok" THEN Ok("unit") ELSE Err(FromArboard(r)), TRUE)

\* One finished call: the function, its result, whether it went to the OS
\* clipboard, and whether the slot held a Clipboard before and after it.
ClipboardCall(op, outcome, after) ==
    [op |-> op, res |-> outcome.res, os |-> outcome.os, before |-> clipboard,
     after |-> after]

\* clipboard::init()
ApiClipboardInit ==
    /\ pc = "clipboard_api"
    /\ Len(hist) < MaxCalls
    /\ \E r \in ArboardResults :
          /\ clipboard' = ClipboardInitResult(r = "Ok")
          /\ hist' = Append(hist, ClipboardCall("init", ClipboardInit(r), clipboard'))
    /\ UNCHANGED <<pc, ret, file, config, loadCall, accepts, lock, threads, effects, app, accepted, frame, requested, msaa,
                   attempted_configurations, successful_configuration, win, input, state,
                   last_window_position, last_window_size, control_flow, calls>>

\* copy_string(..)
ApiCopyString ==
    /\ pc = "clipboard_api"
    /\ Len(hist) < MaxCalls
    /\ \E r \in ArboardResults :
          hist' = Append(hist, ClipboardCall("copy_string", CopyString(clipboard, r), clipboard))
    /\ clipboard' = clipboard
    /\ UNCHANGED <<pc, ret, file, config, loadCall, accepts, lock, threads, effects, app, accepted, frame, requested, msaa,
                   attempted_configurations, successful_configuration, win, input, state,
                   last_window_position, last_window_size, control_flow, calls>>

\* copy_image(..)
ApiCopyImage ==
    /\ pc = "clipboard_api"
    /\ Len(hist) < MaxCalls
    /\ \E r \in ArboardResults :
          hist' = Append(hist, ClipboardCall("copy_image", CopyImage(clipboard, r), clipboard))
    /\ clipboard' = clipboard
    /\ UNCHANGED <<pc, ret, file, config, loadCall, accepts, lock, threads, effects, app, accepted, frame, requested, msaa,
                   attempted_configurations, successful_configuration, win, input, state,
                   last_window_position, last_window_size, control_flow, calls>>

\* paste_string(..)
ApiPasteString ==
    /\ pc = "clipboard_api"
    /\ Len(hist) < MaxCalls
    /\ \E r \in ArboardResults :
          hist' = Append(hist, ClipboardCall("paste_string", PasteString(clipboard, r), clipboard))
    /\ clipboard' = clipboard
    /\ UNCHANGED <<pc, ret, file, config, loadCall, accepts, lock, threads, effects, app, accepted, frame, requested, msaa,
                   attempted_configurations, successful_configuration, win, input, state,
                   last_window_position, last_window_size, control_flow, calls>>

\* paste_image(..)
ApiPasteImage ==
    /\ pc = "clipboard_api"
    /\ Len(hist) < MaxCalls
    /\ \E r \in ArboardResults :
          hist' = Append(hist, ClipboardCall("paste_image", PasteImage(clipboard, r), clipboard))
    /\ clipboard' = clipboard
    /\ UNCHANGED <<pc, ret, file, config, loadCall, accepts, lock, threads, effects, app, accepted, frame, requested, msaa,
                   attempted_configurations, successful_configuration, win, input, state,
                   last_window_position, last_window_size, control_flow, calls>>

\* `Lazy::new(|| Mutex::new(None))`
InitClipboard ==
    /\ pc = "clipboard_api"
    /\ ret = NoReturn
    /\ file = None
    /\ config = None
    /\ loadCall = None
    /\ hist = <<>>
    /\ accepts = {}
    /\ lock = None
    /\ threads = <<>>
    /\ effects = <<>>
    /\ app = App(<<1024, 600>>)
    /\ accepted = None
    /\ frame = <<>>
    /\ requested = <<>>
    /\ msaa = 0
    /\ attempted_configurations = <<>>
    /\ successful_configuration = None
    /\ win = None
    /\ input = FALSE
    /\ state = None
    /\ clipboard = FALSE
    /\ last_window_position = None
    /\ last_window_size = None
    /\ control_flow = "Poll"
    /\ calls = NoCalls

NextClipboard ==
    \/ ApiClipboardInit
    \/ ApiCopyString
    \/ ApiCopyImage
    \/ ApiPasteString
    \/ ApiPasteImage

SpecClipboard == InitClipboard /\ [][NextClipboard]_vars

----------------------------------------------------------------------------
\* clipboard.rs called from several threads.  Every function starts with
\* `let mut clipboard = CLIPBOARD.lock().unwrap();` and the guard lives until the
\* function returns.

MaxThreads == 2
Threads == 1..MaxThreads

ClipboardFunctions == {"init", "copy_string", "copy_image", "paste_string", "paste_image"}

\* A thread outside clipboard.rs
Idle == [pc |-> "idle", op |-> ""]

\* The body of the function `op` once the guard is held
FunctionOutcome(op, slot, r) ==
    CASE op = "init" -> ClipboardInit(r)
      [] op = "copy_string" -> CopyString(slot, r)
      [] op = "copy_image" -> CopyImage(slot, r)
      [] op = "paste_string" -> PasteString(slot, r)
      [] op = "paste_image" -> PasteImage(slot, r)

\* A lock that lets everybody in
LockFreeAlways(l) == TRUE

\* Mutex::lock returns when no other thread holds the mutex.
LockFree(l) == l = None

\* Calls begun and not yet returned
InFlight == Cardinality({t \in Threads : threads[t].pc # "idle"})

\* Thread t calls one of the functions.
ThreadCall(t) ==
    /\ pc = "clipboard_threads"
    /\ threads[t].pc = "idle"
    /\ Len(hist) + InFlight < MaxCalls
    /\ \E op \in ClipboardFunctions :
          threads' = [threads EXCEPT ![t] = [pc |-> "entered", op |-> op]]
    /\ UNCHANGED <<lock, hist, clipboard>>
    /\ UNCHANGED <<pc, ret, file, config, loadCall, accepts, effects, app, accepted, frame,
                   requested, msaa, attempted_configurations, successful_configuration, win,
                   input, state, last_window_position, last_window_size, control_flow, calls>>

\* CLIPBOARD.lock().unwrap() returns in thread t.
ThreadLock(t) ==
    /\ pc = "clipboard_threads"
    /\ threads[t].pc = "entered"
    /\ LockFree(lock)
    /\ lock' = Some(t)
    /\ threads' = [threads EXCEPT ![t].pc = "locked"]
    /\ UNCHANGED <<hist, clipboard>>
    /\ UNCHANGED <<pc, ret, file, config, loadCall, accepts, effects, app, accepted, frame,
                   requested, msaa, attempted_configurations, successful_configuration, win,
                   input, state, last_window_position, last_window_size, control_flow, calls>>

\* Thread t runs the function's body on the slot behind the guard.
ThreadAccess(t) ==
    /\ pc = "clipboard_threads"
    /\ threads[t].pc = "locked"
    /\ \E r \in ArboardResults :
          /\ clipboard' = IF threads[t].op = "init" THEN ClipboardInitResult(r = "Ok")
                          ELSE clipboard
          /\ hist' = Append(hist, ClipboardCall(threads[t].op,
                                                FunctionOutcome(threads[t].op, clipboard, r),
                                                clipboard'))
    /\ threads' = [threads EXCEPT ![t].pc = "accessed"]
    /\ UNCHANGED lock
    /\ UNCHANGED <<pc, ret, file, config, loadCall, accepts, effects, app, accepted, frame,
                   requested, msaa, attempted_configurations, successful_configuration, win,
                   input, state, last_window_position, last_window_size, control_flow, calls>>

\* The function returns in thread t and the guard is dropped.
ThreadReturn(t) ==
    /\ pc = "clipboard_threads"
    /\ threads[t].pc = "accessed"
    /\ lock' = IF lock = Some(t) THEN None ELSE lock
    /\ threads' = [threads EXCEPT ![t] = Idle]
    /\ UNCHANGED <<hist, clipboard>>
    /\ UNCHANGED <<pc, ret, file, config, loadCall, accepts, effects, app, accepted, frame,
                   requested, msaa, attempted_configurations, successful_configuration, win,
                   input, state, last_window_position, last_window_size, control_flow, calls>>

InitClipboardThreads ==
    /\ pc = "clipboard_threads"
    /\ ret = NoReturn
    /\ file = None
    /\ config = None
    /\ loadCall = None
    /\ hist = <<>>
    /\ accepts = {}
    /\ lock = None
    /\ threads = [t \in Threads |-> Idle]
    /\ effects = <<>>
    /\ app = App(<<1024, 600>>)
    /\ accepted = None
    /\ frame = <<>>
    /\ requested = <<>>
    /\ msaa = 0
    /\ attempted_configurations = <<>>
    /\ successful_configuration = None
    /\ win = None
    /\ input = FALSE
    /\ state = None
    /\ clipboard = FALSE
    /\ last_window_position = None
    /\ last_window_size = None
    /\ control_flow = "Poll"
    /\ calls = NoCalls

NextClipboardThreads ==
    \/ \E t \in Threads : ThreadCall(t)
    \/ \E t \in Threads : ThreadLock(t)
    \/ \E t \in Threads : ThreadAccess(t)
    \/ \E t \in Threads : ThreadReturn(t)

SpecClipboardThreads == InitClipboardThreads /\ [][NextClipboardThreads]_vars

----------------------------------------------------------------------------
\* Context negotiation

LevelSequence == <<8, 4, 2, 1, 0>>
TriedLevels == {LevelSequence[i] : i \in 1..Len(LevelSequence)}
AcceptedTried == accepts \cap TriedLevels
Highest(S) == CHOOSE l \in S : \A k \in S : k <= l
Above(level) == SelectSeq(LevelSequence, LAMBDA l : l > level)
LevelsOf(attempts) == [i \in 1..Len(attempts) |-> attempts[i].msaa]

\* C1: the levels asked of the platform are a prefix of 8, 4, 2, 1, 0 (never
\* 16, at most five attempts), and every attempt but the last one failed: no
\* attempt follows a success or a failed attempt at 0.
C1_RequestsDescend ==
    /\ Len(requested) <= Len(LevelSequence)
    /\ \A i \in 1..Len(requested) : requested[i].msaa = LevelSequence[i]
    /\ \A i \in 1..(Len(requested) - 1) :
          requested[i].result # "Ok" /\ requested[i].msaa # 0

C1_Witness ==
    /\ LevelsOf(requested) = LevelSequence
    /\ requested[5].result = "Ok"

\* C2: when the platform accepts some tried level, build_context ends with a
\* context at the highest such level, and the failed attempts it holds at that
\* moment are the tried levels above it, each once, highest first.
C2_HighestAccepted ==
    (pc = "build_context" /\ BuildContextDone /\ AcceptedTried # {}) =>
        /\ BuildContextResult.tag = "Ok"
        /\ BuildContextResult.level = Some(Highest(AcceptedTried))
        /\ LevelsOf(attempted_configurations) = Above(Highest(AcceptedTried))

C2_Witness ==
    /\ pc = "build_context"
    /\ accepts = {2}
    /\ successful_configuration = Some(2)
    /\ LevelsOf(attempted_configurations) = <<8, 4>>

\* C3: when no tried level is accepted, build_context ends in
\* CannotInitializeBackend with one entry per attempt, in the order tried, each
\* with the level asked for and the error the platform gave; no context, no
\* window; try_run_with_language returns that error.
AttemptsLogged ==
    [i \in 1..Len(requested) |-> [msaa |-> requested[i].msaa, error |-> requested[i].result]]

C3_AllFailed ==
    /\ (pc = "build_context" /\ BuildContextDone /\ AcceptedTried = {}) =>
          /\ BuildContextResult.tag = "Err"
          /\ BuildContextResult.level = None
          /\ BuildContextResult.tried = AttemptsLogged
          /\ LevelsOf(BuildContextResult.tried) = LevelSequence
    /\ (pc = "returned" /\ AcceptedTried = {} /\ requested # <<>>) =>
          /\ ret = ReturnErr("Backend", "CannotInitializeBackend", AttemptsLogged)
          /\ LevelsOf(ret.tried) = LevelSequence
          /\ win = None

C3_Witness ==
    /\ pc = "returned"
    /\ ret.error = "CannotInitializeBackend"
    /\ Len(ret.tried) = 5
    /\ ret.tried[1].error # ret.tried[5].error
----------------------------------------------------------------------------
\* Startup errors

Load == Unwrap(loadCall)
Absent(f) == ~IsSome(f)
Corrupt(f) == IsSome(f) /\ ~IsOk(FromStr(Unwrap(f)))

\* C4: a failed load_or_create returns Error::Config and a failed negotiation
\* Error::Backend; once an error was returned nothing runs any more: no
\* init_state, no clipboard::init, no frame, no exit-time write, and the file is
\* as load_or_create left it; run takes the error and nothing follows.
C4_SetupErrorsStop ==
    /\ (IsSome(loadCall) /\ ~IsOk(Load.res)) =>
          pc \in {"returned", "done"} /\ ret = ReturnErr("Config", Load.res.err, <<>>)
    /\ (IsSome(loadCall) /\ IsOk(Load.res) /\ AcceptedTried = {}
            /\ pc \notin {"open_window", "build_context"}) =>
          pc \in {"returned", "done"} /\ ret.tag = "Err" /\ ret.kind = "Backend"
    /\ ret.tag = "Err" =>
          /\ pc \in {"returned", "done"}
          /\ ret.kind \in {"Config", "Backend"}
          /\ calls = NoCalls
          /\ state = None
          /\ ~clipboard
          /\ file = Load.after
          /\ pc = "done" => ~ENABLED Next

C4_Witness ==
    /\ pc = "returned"
    /\ ret.tag = "Err" /\ ret.kind = "Backend" /\ ret.error = "CannotInitializeBackend"
    /\ IsSome(config)

----------------------------------------------------------------------------
\* Config store

\* C5: load_or_create without a file (and with a file system that works)
\* returns the default config, and the file then exists and holds the default.
C5_MissingFileCreated ==
    (IsSome(loadCall) /\ Absent(Load.before) /\ Load.fault = "none") =>
        /\ Load.res = Ok(DefaultConfig)
        /\ Load.after = Some(Serialize(DefaultConfig))
        /\ IsOk(FromStr(Unwrap(Load.after)))
        /\ config = Some(DefaultConfig)

C5_Witness ==
    /\ IsSome(loadCall) /\ Absent(Load.before) /\ Load.fault = "none"
    /\ file = Some(<<Pair("language", StrV("en-US"))>>)

\* C6: load_or_create of a file whose content does not parse returns Ok with
\* the default config, and startup goes on to the window.
C6_CorruptFallsBack ==
    (IsSome(loadCall) /\ Corrupt(Load.before) /\ Load.fault = "none") =>
        /\ Load.res = Ok(DefaultConfig)
        /\ config = Some(DefaultConfig)
        /\ ret.kind # "Config"
        /\ pc \in {"open_window", "build_context", "init_state", "returned"}
        /\ pc = "returned" => requested # <<>>

C6_Witness ==
    /\ IsSome(loadCall) /\ Load.before = Some(<<Junk>>)
    /\ pc = "build_context" /\ msaa = 8 * 2

\* C7 as stated: after load_or_create returned for an absent or a corrupt
\* file, the file holds the serialized default.
C7_DefaultWritten ==
    (IsSome(loadCall) /\ IsOk(Load.res) /\ (Absent(Load.before) \/ Corrupt(Load.before))) =>
        Load.after = Some(Serialize(DefaultConfig))

\* C7 amended: for an absent file the file holds the serialized default after
\* a successful load_or_create; for a corrupt file load_or_create writes
\* nothing: the file is left as it was, and the default exists in memory only.
C7_DefaultWrittenWhenAbsent ==
    /\ (IsSome(loadCall) /\ IsOk(Load.res) /\ Absent(Load.before)) =>
          Load.after = Some(Serialize(DefaultConfig))
    /\ (IsSome(loadCall) /\ Corrupt(Load.before)) =>
          /\ Load.after = Load.before
          /\ Load.after # Some(Serialize(DefaultConfig))
          /\ IsOk(Load.res) => Load.res = Ok(DefaultConfig)

C7_Witness ==
    /\ IsSome(loadCall) /\ IsOk(Load.res)
    /\ Load.before = Some(<<Junk>>)
    /\ file = Some(<<Junk>>)
    /\ config = Some(DefaultConfig)

\* C8: save, load_or_create, save, all succeeding and with no change of the
\* config in between: load_or_create returns the value saved and leaves the
\* file as the first save wrote it, and so does the second save.
C8_SaveLoadSave ==
    \A i \in 1..(Len(hist) - 2) :
        ( /\ hist[i].op = "save" /\ hist[i].ok
          /\ hist[i + 1].op = "load_or_create" /\ hist[i + 1].ok
          /\ hist[i + 2].op = "save" /\ hist[i + 2].ok ) =>
            /\ hist[i + 1].config = hist[i].config
            /\ hist[i + 1].file = hist[i].file
            /\ hist[i + 2].file = hist[i].file

C8_Witness ==
    /\ Len(hist) = 3
    /\ hist[1].op = "save" /\ hist[1].ok
    /\ hist[2].op = "load_or_create" /\ hist[2].ok
    /\ hist[3].op = "save" /\ hist[3].ok
    /\ IsSome(Unwrap(config).window)

\* C9: a window table without `maximized` loads with maximized = false and
\* x, y, width, height as stored, and the file afterwards holds the whole
\* record, `maximized` included.
LacksMaximized(f) ==
    /\ IsSome(f) /\ WellFormed(Unwrap(f))
    /\ HasKey(RootLines(Unwrap(f)), "language")
    /\ Get(RootLines(Unwrap(f)), "language").type = "string"
    /\ FirstTable(Unwrap(f)) <= Len(Unwrap(f))
    /\ Unwrap(f)[FirstTable(Unwrap(f))].key = "window"
    /\ \A k \in {"x", "y"} : IsI32(TableLines(Unwrap(f)), k)
    /\ \A k \in {"width", "height"} : IsU32(TableLines(Unwrap(f)), k)
    /\ ~HasKey(TableLines(Unwrap(f)), "maximized")

C9_MaximizedDefaults ==
    (IsSome(loadCall) /\ LacksMaximized(Load.before) /\ Load.fault = "none") =>
        LET t == TableLines(Unwrap(Load.before))
            w == WindowConfig(Get(t, "x").n, Get(t, "y").n,
                              Get(t, "width").n, Get(t, "height").n, FALSE)
        IN  /\ IsOk(Load.res)
            /\ Unwrap(Load.res.value).window = Some(w)
            /\ Load.before = OldFile => w = WindowConfig(5, 7, 800, 600, FALSE)
            /\ Load.after = Some(Serialize(Unwrap(Load.res.value)))
            /\ Load.after # Load.before
            /\ Get(TableLines(Unwrap(Load.after)), "maximized") = BoolV(FALSE)

C9_Witness ==
    /\ IsSome(loadCall) /\ Load.before = OldFile /\ Load.fault = "none"
    /\ Len(Unwrap(file)) = Len(Unwrap(OldFile)) + 1

----------------------------------------------------------------------------
\* Geometry tracking

\* C10: a Resized event leaves the remembered position alone; it leaves the
\* remembered size alone when the window is maximized and sets it to the
\* event's size when it is not.
C10_ResizeWhileMaximized ==
    [][ Resized =>
          /\ last_window_position' = last_window_position
          /\ Unwrap(win').maximized => last_window_size' = last_window_size
          /\ ~Unwrap(win').maximized => last_window_size' = Some(Unwrap(win').inner_size)
      ]_vars

C10_Witness ==
    /\ pc = "loop"
    /\ Unwrap(win).maximized
    /\ Unwrap(win).inner_size = PhysicalSize(1920, 1080)
    /\ last_window_size = Some(PhysicalSize(640, 480))

\* C11: a Moved event leaves the remembered size alone; it leaves the remembered
\* position alone when x or y of the event's position is negative and sets it to
\* the event's position when both are >= 0, (0, 0) included.
C11_MoveToNegative ==
    [][ Moved =>
          LET new_position == Unwrap(win').outer_position
          IN  /\ last_window_size' = last_window_size
              /\ (new_position.x < 0 \/ new_position.y < 0) =>
                      last_window_position' = last_window_position
              /\ (new_position.x >= 0 /\ new_position.y >= 0) =>
                      last_window_position' = Some(new_position)
              /\ new_position = PhysicalPosition(0, 0) =>
                      last_window_position' = Some(PhysicalPosition(0, 0))
      ]_vars

\* A move to (10, 10) was accepted and a later move to (-1, 3) was not.
C11_Witness ==
    /\ pc = "loop"
    /\ Unwrap(win).outer_position = PhysicalPosition(-1, 3)
    /\ last_window_position = Some(PhysicalPosition(10, 10))

\* C12: once the loop is destroyed the config's window geometry is the
\* remembered position and size, which are those of the last move with both
\* coordinates >= 0 and of the last resize received while not maximized (the
\* startup values when there was none), with the window's maximized state; when
\* the write succeeded the file holds that config.
C12_GeometryPersisted ==
    pc = "exited" =>
        LET c == Unwrap(config)
            a == Unwrap(accepted)
        IN  /\ c.window = Some(WindowConfig(Unwrap(last_window_position).x,
                                            Unwrap(last_window_position).y,
                                            Unwrap(last_window_size).width,
                                            Unwrap(last_window_size).height,
                                            Unwrap(win).maximized))
            /\ c.window = Some(WindowConfig(a.position.x, a.position.y,
                                            a.size.width, a.size.height,
                                            Unwrap(win).maximized))
            /\ hist[Len(hist)].ok => file = Some(Serialize(c))

\* The window was last resized to 1920x1080 while maximized and last moved to
\* (-1, 3); 640x480 at (10, 10) is what the file holds.
C12_Witness ==
    /\ pc = "exited"
    /\ Unwrap(win).maximized
    /\ Unwrap(win).inner_size = PhysicalSize(1920, 1080)
    /\ Unwrap(win).outer_position = PhysicalPosition(-1, 3)
    /\ Unwrap(config).window = Some(WindowConfig(10, 10, 640, 480, TRUE))
    /\ file = Some(Serialize(Unwrap(config)))

\* C13: when the save inside LoopDestroyed's config.write fails, the handler
\* still completes: nothing is returned, nothing panics, report_error is not
\* called, the run ends, and the in-memory config holds the new geometry.
C13_WriteFailureLogged ==
    [][ (LoopDestroyed /\ ~hist'[Len(hist')].ok) =>
          /\ pc' = "exited"
          /\ ret' = ret
          /\ calls'.report_error = calls.report_error
          /\ calls'.write = calls.write + 1
          /\ Unwrap(config').window = Some(FinalWindowConfig)
      ]_vars

\* The write failed on a config that had no window geometry: the file still has
\* none, the config in memory has.
C13_Witness ==
    /\ pc = "exited"
    /\ ~hist[Len(hist)].ok
    /\ file = Some(Serialize(DefaultConfig))
    /\ IsSome(Unwrap(config).window)
    /\ ret = NoReturn

----------------------------------------------------------------------------
\* Redraw ticks

\* C14: once CloseRequested has set the exit flag, no step calls process or
\* next_state.  (With pc = "loop" the flag can only have come from a close
\* request: a tick that sets it ends the loop's iteration.)
C14_NoFrameAfterClose ==
    [][ (pc = "loop" /\ control_flow = "Exit") =>
          /\ calls'.process = calls.process
          /\ calls'.next_state = calls.next_state
      ]_vars

\* C15: a window opened for a config without window geometry has the App's
\* default_window_size as its inner size.
C15_DefaultWindowSize ==
    (IsSome(win) /\ ~IsSome(Unwrap(config).window)) =>
        Unwrap(win).inner_size = PhysicalSize(app.default_window_size[1],
                                              app.default_window_size[2])

\* The next_state call of a tick's calls, None when there was none.
NextStateCall(calls_made) ==
    IF Len(calls_made) >= 2 /\ calls_made[2].call = "next_state"
    THEN Some(calls_made[2]) ELSE None

\* A step of the loop is a redraw tick exactly when it makes a process call.
RedrawTick == pc = "loop" /\ calls'.process # calls.process

\* C16: a redraw tick calls process once, first, on the state in the slot; it
\* calls next_state once, right after process and on the same state, when
\* process returned Ok, and not at all when process returned an error; the
\* state next_state returned is the one the following tick calls process on.
C16_OneFramePerTick ==
    [][ RedrawTick =>
          /\ Count(frame', "process") = 1
          /\ frame'[1].call = "process"
          /\ frame'[1].on = state
          /\ calls'.process = calls.process + 1
          /\ Count(frame', "next_state") = (IF frame'[1].ok THEN 1 ELSE 0)
          /\ calls'.next_state = calls.next_state + (IF frame'[1].ok THEN 1 ELSE 0)
          /\ frame'[1].ok => /\ IsSome(NextStateCall(frame'))
                             /\ Unwrap(NextStateCall(frame')).on = frame'[1].on
          /\ (IsSome(NextStateCall(frame)) /\ Unwrap(NextStateCall(frame)).ok) =>
                  frame'[1].on = Unwrap(NextStateCall(frame)).result
      ]_vars

\* The first tick's next_state returned another instance and the second tick
\* called process on it.
C16_Witness ==
    /\ calls.process = 2
    /\ calls.next_state >= 1
    /\ frame # <<>>
    /\ frame[1] = Invoke("process", Some(1), FALSE, None)
    /\ Len(frame) = 4

\* The state instances a tick's calls were made on.
InvokedOn(calls_made) ==
    {calls_made[k].on : k \in {j \in 1..Len(calls_made) : IsSome(calls_made[j].on)}}

\* C17: the slot never holds more than one state, a tick calls process and
\* next_state on no instance but the one in the slot, and an instance that
\* next_state was called on in the tick before is called again only when that
\* next_state returned it.
C17_LinearHandOff ==
    /\ [](Len(state) <= 1)
    /\ [][ RedrawTick =>
              /\ InvokedOn(frame') = {state}
              /\ Len(state') <= 1
              /\ IsSome(NextStateCall(frame)) =>
                    LET consumed == Unwrap(NextStateCall(frame))
                    IN  consumed.on \in InvokedOn(frame') =>
                            (consumed.ok /\ consumed.result = consumed.on)
              /\ IsSome(NextStateCall(frame')) =>
                    state' = Unwrap(NextStateCall(frame')).result
          ]_vars

\* Instance 0 was handed to next_state, which returned instance 1; a tick later
\* next_state on instance 1 returned instance 0, which the slot now holds.
C17_Witness ==
    /\ calls.process = 2
    /\ calls.next_state = 2
    /\ Len(frame) >= 2
    /\ frame[2] = Invoke("next_state", Some(1), TRUE, Some(0))
    /\ state = Some(0)

\* C18: a tick whose process returned an error calls report_error once and
\* next_state not at all; when report_error has returned, the exit flag is set
\* at the end of that tick; and after such a tick process is never called again.
C18_ProcessErrorReported ==
    /\ [][ (RedrawTick /\ ~frame'[1].ok) =>
              /\ Count(frame', "process") = 1
              /\ Count(frame', "report_error") = 1
              /\ calls'.report_error = calls.report_error + 1
              /\ Count(frame', "next_state") = 0
              /\ frame'[2].call = "report_error"
              /\ frame'[2].ok => (control_flow' = "Exit" /\ pc' = "destroy")
          ]_vars
    /\ [][ (frame # <<>> /\ ~frame[1].ok) =>
              (calls'.process = calls.process /\ calls'.report_error = calls.report_error)
          ]_vars

\* process failed on the first tick; the error was reported and the loop is to
\* be destroyed.
C18_Witness ==
    /\ pc = "destroy"
    /\ control_flow = "Exit"
    /\ calls.process = 1
    /\ calls.report_error = 1
    /\ calls.next_state = 0
    /\ frame[1] = Invoke("process", Some(0), FALSE, None)

\* C19: a tick whose draw callback has returned ends with finish_frame, called
\* once and last, after swap_buffers, whatever process, next_state and
\* swap_buffers returned.
C19_FinishFrameAlways ==
    [][ (RedrawTick /\ pc' # "aborted") =>
          LET n == Len(frame')
          IN  /\ Count(frame', "finish_frame") = 1
              /\ calls'.finish_frame = calls.finish_frame + 1
              /\ frame'[n].call = "finish_frame"
              /\ frame'[n - 1].call = "swap_buffers"
              /\ \A k \in 1..(n - 2) :
                    frame'[k].call \in {"process", "next_state", "report_error"}
              /\ input' = FALSE
      ]_vars

\* next_state failed, the error was reported, presenting the frame failed, and
\* finish_frame was called.
C19_Witness ==
    /\ Len(frame) = 5
    /\ frame[2] = Invoke("next_state", Some(0), FALSE, None)
    /\ frame[4] = Invoke("swap_buffers", None, FALSE, None)
    /\ frame[5].call = "finish_frame"
    /\ calls.finish_frame = 1
    /\ input = FALSE

----------------------------------------------------------------------------
\* Clipboard

ClipboardOps == {"copy_string", "copy_image", "paste_string", "paste_image"}

\* No init call before call k has returned Ok.
NoInitBefore(k) == \A j \in 1..(k - 1) : ~(hist[j].op = "init" /\ IsOk(hist[j].res))

\* C20: a copy or paste call made when no init call has succeeded returns
\* Uninitialized, does not call into the OS clipboard, and finds and leaves the
\* slot empty.
C20_UninitializedClipboard ==
    \A k \in 1..Len(hist) :
        (hist[k].op \in ClipboardOps /\ NoInitBefore(k)) =>
            /\ hist[k].res = Err("Uninitialized")
            /\ ~hist[k].os
            /\ ~hist[k].before
            /\ ~hist[k].after

\* init failed, then paste_image and copy_string were called.
C20_Witness ==
    /\ Len(hist) = 3
    /\ hist[1].op = "init" /\ hist[1].res = Err("NotSupported")
    /\ hist[2].op = "paste_image" /\ hist[2].res = Err("Uninitialized")
    /\ hist[3].op = "copy_string" /\ hist[3].res = Err("Uninitialized")
    /\ ~clipboard

\* The threads that are past lock() and have not returned.
Holding == {t \in Threads : threads[t].pc \in {"locked", "accessed"}}

\* C21: a thread that is inside one of the functions past its lock() holds the
\* mutex, and it is the only such thread; no call has touched the slot without
\* holding it.
C21_OneHolder ==
    /\ Cardinality(Holding) <= 1
    /\ \A t \in Threads : t \in Holding <=> lock = Some(t)

\* One thread has run copy_string under the lock and has not returned; the
\* other has called paste_image and waits in lock().
C21_Witness ==
    /\ threads[1] = [pc |-> "accessed", op |-> "copy_string"]
    /\ threads[2] = [pc |-> "entered", op |-> "paste_image"]
    /\ lock = Some(1)
    /\ Len(hist) = 2

\* The six kinds of failure the taxonomy names
SixKinds == {"Uninitialized", "NotSupported", "Occupied", "ConversionFailed",
             "ContentUnavailable", "Unknown"}

\* The variants of ClipboardError
ClipboardErrors == SixKinds \cup {"SaveFailed", "DoesNotContainText", "DoesNotContainAnImage"}

Failed(k) == ~IsOk(hist[k].res)

\* C22 as stated: every failure a clipboard function returns is one of the six
\* kinds.
C22_SixKinds ==
    \A k \in 1..Len(hist) : Failed(k) => hist[k].res.err \in SixKinds

\* C22: every failure is a variant of ClipboardError; init fails with what From
\* makes of arboard's error, the copy functions fail with Uninitialized or
\* SaveFailed only, paste_string and paste_image fail with Uninitialized, with
\* DoesNotContainText and DoesNotContainAnImage for a clipboard without such
\* content, and else with what From makes of arboard's error.
C22_ClosedTaxonomy ==
    \A k \in 1..Len(hist) :
        Failed(k) =>
            LET e == hist[k].res.err
                op == hist[k].op
            IN  /\ e \in ClipboardErrors
                /\ op = "init" => e \in SixKinds \ {"Uninitialized"}
                /\ op \in {"copy_string", "copy_image"} =>
                       e = (IF hist[k].before THEN "SaveFailed" ELSE "Uninitialized")
                /\ op = "paste_string" =>
                       e \in (SixKinds \ {"ContentUnavailable"}) \cup {"DoesNotContainText"}
                /\ op = "paste_image" =>
                       e \in (SixKinds \ {"ContentUnavailable"}) \cup {"DoesNotContainAnImage"}
                /\ e = "Uninitialized" <=> (op # "init" /\ ~hist[k].before)

\* After a successful init, copy_string failed with SaveFailed and paste_string
\* with DoesNotContainText.
C22_Witness ==
    /\ Len(hist) = 3
    /\ hist[1].op = "init" /\ IsOk(hist[1].res)
    /\ hist[2].op = "copy_string" /\ hist[2].res = Err("SaveFailed")
    /\ hist[3].op = "paste_string" /\ hist[3].res = Err("DoesNotContainText")

\* Some alert dialog was attempted among the effects of the last step
AlertAttempted == \E k \in DOMAIN effects : effects[k].what = "alert"

\* C23: every error of every class brings up an alert next to the log entry:
\* a setup error returned to run, a per-frame state error, a process fault.
C23_AlertForEveryError ==
    /\ (pc = "done" /\ ret.tag = "Err") => AlertAttempted
    /\ (pc = "destroy" /\ Count(frame, "report_error") = 1) => AlertAttempted
    /\ pc = "aborted" => AlertAttempted

\* C24: when a panic has run the hook, the default hook was called exactly once,
\* last, right after the alert attempt, whether or not the alert was shown and
\* whether or not title and message fitted their buffers.
C24_DefaultHookOnce ==
    pc = "aborted" =>
        LET n == Len(effects)
        IN  /\ n >= 2
            /\ effects[n].what = "default_hook"
            /\ effects[n - 1] = Effect("alert", "fatal", effects[n - 1].ok)
            /\ Cardinality({k \in DOMAIN effects : effects[k].what = "default_hook"}) = 1

\* The title overflowed its buffer and the alert could not be shown.
C24_Witness ==
    /\ pc = "aborted"
    /\ effects[Len(effects) - 1] = Effect("alert", "fatal", FALSE)
    /\ \E k \in DOMAIN effects : effects[k] = Effect("write", "title", FALSE)
    /\ \E k \in DOMAIN effects : effects[k] = Effect("write", "message", TRUE)

\* C25: while the event loop runs (and until LoopDestroyed has run) the config
\* and the config file are what load_or_create left, whatever was resized,
\* moved, closed or drawn; the driver writes the config once, in LoopDestroyed.
C25_ConfigUntouchedInLoop ==
    /\ pc \in {"loop", "destroy"} =>
          /\ config = Unwrap(loadCall).res.value
          /\ file = Unwrap(loadCall).after
          /\ calls.write = 0
          /\ \A k \in DOMAIN hist : hist[k].op # "write"
    /\ calls.write <= 1
    /\ calls.write = 1 => pc = "exited"

\* Two frames were drawn, the window was resized and moved and then closed, and
\* the remembered geometry is no longer the config's.
C25_Witness ==
    /\ pc = "destroy"
    /\ calls.process = 2
    /\ IsSome(Unwrap(config).window)
    /\ Unwrap(last_window_size).width # Unwrap(Unwrap(config).window).width
    /\ Unwrap(last_window_position).x # Unwrap(Unwrap(config).window).x
    /\ control_flow = "Exit"

\* C26: when the loaded config had a window geometry and no resize was taken
\* (all came while maximized) and no move was taken (all had a negative
\* coordinate), the config after LoopDestroyed has the loaded x, y, width and
\* height, and so has the file when the write succeeded, wherever the live
\* window is and whatever its size.
C26_UntouchedGeometryKept ==
    (/\ pc = "exited"
     /\ IsSome(Unwrap(Unwrap(loadCall).res.value).window)
     /\ ~Unwrap(accepted).touched) =>
        LET loaded == Unwrap(Unwrap(Unwrap(loadCall).res.value).window)
            kept == Unwrap(Unwrap(config).window)
            stored == Unwrap(Unwrap(FromStr(Unwrap(file)).value).window)
        IN  /\ <<kept.x, kept.y, kept.width, kept.height>>
                 = <<loaded.x, loaded.y, loaded.width, loaded.height>>
            /\ hist[Len(hist)].ok =>
                  <<stored.x, stored.y, stored.width, stored.height>>
                    = <<loaded.x, loaded.y, loaded.width, loaded.height>>

\* 800x600 at (5, 7) was loaded and is stored again, while the live window was
\* resized (maximized) and moved off the screen edge.
C26_Witness ==
    /\ pc = "exited"
    /\ ~Unwrap(accepted).touched
    /\ Unwrap(Unwrap(loadCall).res.value).window = Some(WindowConfig(5, 7, 800, 600, FALSE))
    /\ Unwrap(win).inner_size = PhysicalSize(1920, 1080)
    /\ Unwrap(win).outer_position = PhysicalPosition(-1, 3)
    /\ hist[Len(hist)].ok
    /\ Unwrap(Unwrap(FromStr(Unwrap(file)).value).window) = WindowConfig(5, 7, 800, 600, TRUE)

\* C27: clipboard::init is called at most once in a run; the call is the step
\* that leaves the point where the backend is built, the window exists and the
\* initial state has been constructed without a report, and it comes before any
\* window event or frame is handled.
C27_ClipboardInitOnce ==
    /\ calls.clipboard_init <= 1
    /\ pc = "clipboard" =>
          /\ IsSome(win)
          /\ requested # <<>> /\ requested[Len(requested)].result = "Ok"
          /\ IsSome(state)
          /\ calls.init_state = 1
          /\ calls.report_error = 0
    /\ calls.clipboard_init = 0 =>
          /\ pc \notin {"loop", "destroy", "exited"}
          /\ accepted = None
          /\ frame = <<>>
          /\ calls.process = 0
          /\ control_flow = "Poll"
    /\ calls.clipboard_init = 1 =>
          /\ pc \in {"loop", "destroy", "exited", "aborted"}
          /\ calls.init_state = 1
          /\ requested # <<>> /\ requested[Len(requested)].result = "Ok"

\* The clipboard was initialized once, and since then the window was resized or
\* moved and a frame was drawn.
C27_Witness ==
    /\ pc = "loop"
    /\ calls.clipboard_init = 1
    /\ clipboard
    /\ Unwrap(accepted).touched
    /\ calls.process = 1

\* C28: a failed clipboard::init is logged and nothing else: no report_error,
\* no alert, no Exit, nothing returned; the loop is entered, frames can be
\* drawn, and the clipboard stays uninitialized from then on.
C28_ClipboardInitFailureLogged ==
    /\ [][ (calls'.clipboard_init = calls.clipboard_init + 1 /\ ~clipboard') =>
              /\ effects' = <<Effect("log", "failed to initialize clipboard", TRUE)>>
              /\ calls'.report_error = calls.report_error
              /\ control_flow' = "Poll"
              /\ ret' = NoReturn
              /\ pc' = "loop"
         ]_vars
    /\ [][ (calls.clipboard_init = 1 /\ ~clipboard) => ~clipboard' ]_vars
    /\ []( (calls.clipboard_init = 1 /\ ~clipboard /\ pc = "loop"
            /\ calls.process < MaxFrames) => ENABLED MainEventsCleared )

\* Two frames were drawn after clipboard::init had failed.
C28_Witness ==
    /\ calls.clipboard_init = 1
    /\ ~clipboard
    /\ pc = "loop"
    /\ calls.process = 2
    /\ calls.finish_frame = 2
    /\ ret = NoReturn

\* C29: report_error handed a loaded language logs and alerts in that language
\* and loads nothing; handed none it loads "en-US" from the language map, once,
\* and, when that load succeeds, logs and alerts in en-US.  The log entry comes
\* right before the alert.
C29_ReportLanguage ==
    \A k \in DOMAIN effects : effects[k].what = "report_error" =>
        LET cell == effects[k].about
            loads == {j \in DOMAIN effects : effects[j].what = "load_language"}
        IN  /\ cell # "" =>
                  /\ loads = {}
                  /\ effects[k + 1] = Effect("log", cell, TRUE)
                  /\ effects[k + 2] = Effect("alert", cell, effects[k + 2].ok)
            /\ cell = "" =>
                  /\ Cardinality(loads) = 1
                  /\ \A j \in loads :
                        /\ j > k
                        /\ effects[j].about = "en-US"
                        /\ effects[j].ok =>
                              /\ effects[j + 1] = Effect("log", "en-US", TRUE)
                              /\ effects[j + 2] = Effect("alert", "en-US", effects[j + 2].ok)

\* A frame's error was reported with no language loaded: en-US was loaded, the
\* error logged and the alert shown, and the loop is about to end.
C29_Witness ==
    /\ pc = "destroy"
    /\ effects = <<Effect("report_error", "", TRUE), Effect("load_language", "en-US", TRUE),
                   Effect("log", "en-US", TRUE), Effect("alert", "en-US", TRUE),
                   Effect("log", "render error", TRUE)>>

\* C30: every write(f) returns with the in-memory config equal to the previous
\* config with f applied, and, when its save succeeded, with the file equal to
\* the serialization of that config.
C30_WriteAppliesThenSaves ==
    \A k \in DOMAIN hist : hist[k].op = "write" =>
        /\ hist[k].config = Some(Apply(hist[k].f, Unwrap(hist[k].before)))
        /\ hist[k].ok => hist[k].file = Some(Serialize(Unwrap(hist[k].config)))

\* A write that set the window geometry on a config read from the old file, and
\* the file now holds it.
C30_Witness ==
    /\ Len(hist) = 2
    /\ hist[1].op = "load_or_create" /\ hist[1].ok
    /\ hist[2].op = "write" /\ hist[2].ok /\ hist[2].f = "set_window"
    /\ hist[2].config # hist[2].before
    /\ file = Some(Serialize(Unwrap(config)))
    /\ file # hist[1].file
    /\ Unwrap(config).window = Some(WindowConfig(0, 0, 640, 480, FALSE))

\* The load_or_create calls made so far that returned Ok
Installs == {k \in DOMAIN hist : hist[k].op = "load_or_create" /\ hist[k].ok}

C32_SlotFilledAtTick ==
    /\ pc = "loop" => IsSome(state)
    /\ ENABLED MainEventsCleared => IsSome(state)
    /\ (pc = "destroy" /\ ~IsSome(state)) =>
          /\ control_flow = "Exit"
          /\ IsSome(NextStateCall(frame))
          /\ ~Unwrap(NextStateCall(frame)).ok
          /\ ~ENABLED MainEventsCleared
          /\ ENABLED LoopDestroyed

\* The second tick's next_state returned an error after process had succeeded:
\* the slot is empty and the loop is about to be destroyed.
C32_Witness ==
    /\ pc = "destroy"
    /\ ~IsSome(state)
    /\ calls.process = 2
    /\ calls.next_state = 2
    /\ control_flow = "Exit"

\* C33: after every render_frame the context's surface has the window's inner
\* size of that call, and the context was resized in that call exactly when
\* its surface had another size than the window.
C33_SurfaceFollowsWindow ==
    \A k \in DOMAIN hist : hist[k].op = "render_frame" =>
        /\ hist[k].surface = hist[k].window_size
        /\ hist[k].resized <=> (hist[k].before # hist[k].window_size)

\* C34: when init_state returned an error (report_error was called before any
\* frame), it was reported once, and when report_error returned,
\* try_run_with_language returned Ok(()); the loop was never entered: no
\* frame, no clipboard::init, and config and file are as load_or_create left
\* them.
C34_InitStateErrorStops ==
    (calls.init_state = 1 /\ calls.report_error >= 1 /\ calls.process = 0) =>
        /\ calls.report_error = 1
        /\ Cardinality({k \in DOMAIN effects : effects[k].what = "report_error"}) = 1
        /\ pc \in {"returned", "done", "aborted"}
        /\ pc \in {"returned", "done"} => ret = ReturnOk
        /\ pc = "aborted" => ret = NoReturn
        /\ pc = "done" => ~ENABLED Next
        /\ frame = <<>>
        /\ calls.clipboard_init = 0
        /\ ~clipboard
        /\ accepted = None
        /\ last_window_position = None /\ last_window_size = None
        /\ calls.write = 0
        /\ config = Load.res.value
        /\ file = Load.after

\* init_state failed with no language loaded; the error was logged and shown in
\* en-US and run has returned, with the window built and nothing else done.
C34_Witness ==
    /\ pc = "done"
    /\ ret = ReturnOk
    /\ calls = [NoCalls EXCEPT !.init_state = 1, !.report_error = 1]
    /\ IsSome(win)
    /\ state = None
    /\ effects = <<Effect("report_error", "", TRUE), Effect("load_language", "en-US", TRUE),
                   Effect("log", "en-US", TRUE), Effect("alert", "en-US", TRUE)>>

\* The swap_buffers call of the frame just made failed.
PresentFailed ==
    \E k \in DOMAIN frame : frame[k].call = "swap_buffers" /\ ~frame[k].ok

\* C35: a tick whose swap_buffers failed logs the render error and does nothing
\* else about it: report_error is called and Exit is set exactly when process
\* or next_state failed (Exit set by an earlier CloseRequested stays set), and
\* when both succeeded the slot holds the state next_state returned, the flag
\* is as it was and the loop goes on unless a close was requested.
C35_PresentFailureLogged ==
    [][ (RedrawTick /\ PresentFailed') =>
          LET failed == \E k \in DOMAIN frame' :
                           frame'[k].call \in {"process", "next_state"} /\ ~frame'[k].ok
              reports == {k \in DOMAIN effects' : effects'[k].what = "report_error"}
          IN  /\ effects'[Len(effects')] = Effect("log", "render error", TRUE)
              /\ Count(frame', "report_error") = (IF failed THEN 1 ELSE 0)
              /\ Cardinality(reports) = (IF failed THEN 1 ELSE 0)
              /\ (control_flow' = "Exit") <=> (failed \/ control_flow = "Exit")
              /\ ~failed =>
                    /\ effects' = <<Effect("log", "render error", TRUE)>>
                    /\ frame'[2].call = "next_state"
                    /\ state' = frame'[2].result
                    /\ IsSome(state')
                    /\ control_flow' = control_flow
                    /\ pc' = (IF control_flow = "Exit" THEN "destroy" ELSE "loop")
      ]_vars

\* process and next_state succeeded, presenting the frame failed and was
\* logged; the slot holds the successor and the next tick can run on it.
C35_Witness ==
    /\ PresentFailed
    /\ pc = "loop"
    /\ frame[1] = Invoke("process", Some(0), TRUE, None)
    /\ frame[2] = Invoke("next_state", Some(0), TRUE, Some(1))
    /\ state = Some(1)
    /\ control_flow = "Poll"
    /\ calls.report_error = 0
    /\ effects = <<Effect("log", "render error", TRUE)>>
    /\ ENABLED MainEventsCleared

=============================================================================
